---- MODULE Spec2Model ----
(***************************************************************************)
(* Partner deal registration: the Google-Sheets backed record store, the   *)
(* deal submission handler with its duplicate detector and customer        *)
(* find-or-create, and the admin approve / reject handlers.                *)
(*                                                                         *)
(* Every JavaScript string is a sequence of one-character strings, so that *)
(* trim() and toLowerCase() are computed character by character.  A        *)
(* handler is one action per store round trip: the code between two awaits *)
(* runs without interruption on the Node event loop, and the sheet is      *)
(* read or written as a whole by each API call.                            *)
(***************************************************************************)
EXTENDS Integers, Sequences, FiniteSets, TLC

\* Number of requests the model issues (they may overlap in time).
MaxReq == 3
\* Number of requests that may be in progress at the same time.
MaxInFlight == 2
\* Number of store calls that may fail with an I/O error.
MaxFail == 1

Requests == 1..MaxReq

\* sheets:   the spreadsheet, the data rows of each sheet below its header
\* failures: the number of store calls that have failed so far
\* pc, req, local, res: each request's position in its handler, its
\*           parameters, body and user, its local variables, its response
\* hist:     what each request has done to the store (for the properties)
VARIABLES sheets, failures, pc, req, local, res, hist

vars == <<sheets, failures, pc, req, local, res, hist>>

---------------------------------------------------------------------------
(* JavaScript values *)

Undefined == <<"undefined">>
Null == [null |-> TRUE]

Upper == <<"A","B","C","D","E","F","G","H","I","J","K","L","M",
           "N","O","P","Q","R","S","T","U","V","W","X","Y","Z">>
Lower == <<"a","b","c","d","e","f","g","h","i","j","k","l","m",
           "n","o","p","q","r","s","t","u","v","w","x","y","z">>

LowerChar(c) ==
  IF \E i \in 1..Len(Upper) : Upper[i] = c
  THEN Lower[CHOOSE i \in 1..Len(Upper) : Upper[i] = c]
  ELSE c

toLowerCase(s) == [i \in 1..Len(s) |-> LowerChar(s[i])]

IsSpace(c) == c = " "

RECURSIVE trimStart(_)
trimStart(s) == IF s # <<>> /\ IsSpace(Head(s)) THEN trimStart(Tail(s)) ELSE s

RECURSIVE trimEnd(_)
trimEnd(s) ==
  IF s # <<>> /\ IsSpace(s[Len(s)]) THEN trimEnd(SubSeq(s, 1, Len(s) - 1)) ELSE s

trim(s) == trimEnd(trimStart(s))

\* !v for a string-or-undefined value
Falsy(v) == v = Undefined \/ v = <<>>

\* v || d
OrElse(v, d) == IF Falsy(v) THEN d ELSE v

\* arr[i], JavaScript's 0-based indexing; out of range reads undefined
At(arr, i) == IF i >= 0 /\ i < Len(arr) THEN arr[i + 1] ELSE Undefined

\* arr[i] = v: a negative index sets a property, not an element; an index
\* past the end grows the array, and the holes are sent as empty cells
SetAt(arr, i, v) ==
  IF i < 0 THEN arr
  ELSE [k \in 1..(IF i + 1 > Len(arr) THEN i + 1 ELSE Len(arr)) |->
          IF k = i + 1 THEN v ELSE IF k <= Len(arr) THEN arr[k] ELSE <<>>]

\* arr.indexOf(x)
indexOf(arr, x) ==
  IF \E i \in 1..Len(arr) : arr[i] = x
  THEN (CHOOSE i \in 1..Len(arr) : arr[i] = x /\ \A j \in 1..(i - 1) : arr[j] # x) - 1
  ELSE -1

\* The index of the last element of arr that is x
lastIndexOf(arr, x) ==
  IF \E i \in 1..Len(arr) : arr[i] = x
  THEN (CHOOSE i \in 1..Len(arr) : arr[i] = x /\ \A j \in (i + 1)..Len(arr) : arr[j] # x) - 1
  ELSE -1

Range(s) == {s[i] : i \in 1..Len(s)}

---------------------------------------------------------------------------
(* Literals of the code *)

submitted == <<"s","u","b","m","i","t","t","e","d">>
approved == <<"a","p","p","r","o","v","e","d">>
rejected == <<"r","e","j","e","c","t","e","d">>

\* new Date().toISOString(): some non-empty text
getCurrentTimestamp == <<"T">>

\* 'ID_' + time + random: a fresh token per call, here the number of the
\* request that makes the call and the number of the call within it
generateId(r, k) == <<"I","D","_", ToString(r), ToString(k)>>

ADMIN_USERS == {
  <<"h","u","s","e","i","n","i","@","d","a","x","a",".","a","i">>,
  <<"a","p","o","o","r","v","a","@","d","a","x","a",".","a","i">>,
  <<"s","r","i","d","h","a","r","@","d","a","x","a",".","a","i">>,
  <<"a","d","m","i","n","@","d","a","x","a",".","a","i">> }

\* The header rows of the sheets, restricted to the columns the handlers
\* read or write.  createDeal and createOrFindCustomer fix the order; the
\* reject handler looks rejection_reason up by name, and createDeal writes
\* no cell for it, so it lies past the cells of a fresh row.
DealsHeader == <<"id", "customer_id", "status", "partner_company", "company_name",
                 "domain", "approved_by", "approved_at", "created_at", "updated_at",
                 "rejection_reason">>
CustomersHeader == <<"id", "company_name", "domain", "created_at", "updated_at">>
AuditHeader == <<"id", "deal_id", "actor_email", "action", "timestamp", "note">>

\* Users and Partners in the column order in which registerUser and
\* googleLogin write them, Admins as the admin pages list them, restricted
\* to the columns that the sign-in and the middleware read
UsersHeader == <<"id", "partner_id", "email", "password_hash", "role", "status">>
PartnersHeader == <<"id", "company_name">>
AdminsHeader == <<"email", "status">>

Header == [Deals |-> DealsHeader, Customers |-> CustomersHeader, Audit_Log |-> AuditHeader,
           Users |-> UsersHeader, Partners |-> PartnersHeader, Admins |-> AdminsHeader]

---------------------------------------------------------------------------
(* GoogleSheetsService *)

getSheetData(sheetName) == <<Header[sheetName]>> \o sheets[sheetName]

appendToSheet(sh, sheetName, values) == [sh EXCEPT ![sheetName] = Append(@, values)]

\* Mutant: the row is counted without the header.
updateRowWithoutHeader(sh, sheetName, rowIndex, values) ==
  [sh EXCEPT ![sheetName] =
     [k \in 1..Len(@) |->
        IF k = rowIndex THEN values \o SubSeq(@[k], Len(values) + 1, Len(@[k])) ELSE @[k]]]

\* values.update on the range rowIndex:rowIndex: the cells of the row are
\* overwritten from its first column on, as many as there are values, and
\* the cells after them are left as they are
updateRow(sh, sheetName, rowIndex, values) ==
  [sh EXCEPT ![sheetName] =
     [k \in 1..Len(@) |->
        IF k = rowIndex - 1 THEN values \o SubSeq(@[k], Len(values) + 1, Len(@[k]))
        ELSE @[k]]]

\* headers.forEach((header, index) => rowData[header] = row[index] || ''):
\* of two columns of one name, the later one is the one that stays
rowObject(headers, row) ==
  [h \in Range(headers) |-> OrElse(At(row, lastIndexOf(headers, h)), <<>>)]

\* Mutant: the position of the row is counted from 0, without the header.
RECURSIVE findLoopZeroBased(_, _, _, _)
findLoopZeroBased(data, columnIndex, searchValue, i) ==
  IF i >= Len(data) THEN Null
  ELSE IF At(At(data, i), columnIndex) = searchValue
       THEN [h \in Range(At(data, 0)) \cup {"_rowIndex"} |->
               IF h = "_rowIndex" THEN i - 1
               ELSE rowObject(At(data, 0), At(data, i))[h]]
       ELSE findLoopZeroBased(data, columnIndex, searchValue, i + 1)

RECURSIVE findLoop(_, _, _, _)
findLoop(data, columnIndex, searchValue, i) ==
  IF i >= Len(data) THEN Null
  ELSE IF At(At(data, i), columnIndex) = searchValue
       THEN [h \in Range(At(data, 0)) \cup {"_rowIndex"} |->
               IF h = "_rowIndex" THEN i + 1
               ELSE rowObject(At(data, 0), At(data, i))[h]]
       ELSE findLoop(data, columnIndex, searchValue, i + 1)

\* findRowByValue once getSheetData(sheetName) has returned data
findRowIn(data, searchColumn, searchValue) ==
  LET columnIndex == indexOf(At(data, 0), searchColumn)
  IN IF Len(data) = 0 THEN Null
     ELSE IF columnIndex = -1 THEN Null
     ELSE findLoop(data, columnIndex, searchValue, 1)

findRowByValue(sheetName, searchColumn, searchValue) ==
  findRowIn(getSheetData(sheetName), searchColumn, searchValue)

---------------------------------------------------------------------------
(* Requests *)

NoHist == [startStatus |-> Undefined, settled |-> FALSE, failed |-> FALSE,
           readFailed |-> FALSE,
           updates |-> 0, audits |-> 0, dealRows |-> 0, customerRows |-> 0]

\* The status the Deals sheet holds for a deal id (undefined: no such row)
StatusOf(id) ==
  LET deal == findRowByValue("Deals", "id", id)
  IN IF deal = Null THEN Undefined ELSE deal.status

\* Every request that has written the row of this deal has returned
Settled(id) == \A q \in Requests : pc[q] = "audit" => req[q].id # id

\* Requests are numbered in the order in which they arrive.
InFlight == {q \in Requests : pc[q] \notin {"idle", "done"}}

Arrives(r) ==
  /\ pc[r] = "idle"
  /\ IF r = 1 THEN TRUE ELSE pc[r - 1] # "idle"
  /\ Cardinality(InFlight) < MaxInFlight

\* The request reaches the server: its handler has not run yet.
Start(r, rq) ==
  /\ Arrives(r)
  /\ req' = [req EXCEPT ![r] = rq]
  /\ pc' = [pc EXCEPT ![r] = "admit"]
  /\ UNCHANGED <<sheets, failures, local, res>>

\* res.status(code).json({...}); the handler returns, and the request and
\* its local variables are gone
Respond(r, response) ==
  /\ res' = [res EXCEPT ![r] = response]
  /\ pc' = [pc EXCEPT ![r] = "done"]
  /\ local' = [local EXCEPT ![r] = Null]
  /\ req' = [req EXCEPT ![r] = Null]

\* the handler awaits its next store call
Goto(r, label, loc) ==
  /\ pc' = [pc EXCEPT ![r] = label]
  /\ local' = [local EXCEPT ![r] = loc]
  /\ UNCHANGED <<res, req>>

\* The awaited store call rejects; the handler's catch answers 500.
StoreError(r, error) ==
  /\ failures < MaxFail
  /\ failures' = failures + 1
  /\ hist' = [hist EXCEPT ![r].failed = TRUE]
  /\ Respond(r, [code |-> 500, error |-> error])
  /\ UNCHANGED sheets

---------------------------------------------------------------------------
(* routes: POST /deals/:id/approve and POST /deals/:id/reject *)

\* Mutant: every signed-in user is let through.
requireAdminEveryone(email) == TRUE

requireAdmin(email) == toLowerCase(email) \in ADMIN_USERS

\* Mutant: the status check is left out.
FindDealUnchecked(r, cannot) ==
  LET deal == findRowByValue("Deals", "id", req[r].id)
  IN /\ IF deal = Null
        THEN Respond(r, [code |-> 404, error |-> "Deal not found"])
        ELSE Goto(r, "reread", [deal |-> deal])
     /\ UNCHANGED <<sheets, failures, hist>>

\* const deal = await findRowByValue('Deals', 'id', id), and the two checks
FindDeal(r, cannot) ==
  LET deal == findRowByValue("Deals", "id", req[r].id)
  IN /\ IF deal = Null
        THEN Respond(r, [code |-> 404, error |-> "Deal not found"])
        ELSE IF deal.status # submitted
             THEN Respond(r, [code |-> 400, error |-> cannot])
             ELSE Goto(r, "reread", [deal |-> deal])
     /\ UNCHANGED <<sheets, failures, hist>>

\* Mutant: the status cell is not written.
ApprovedRowKeepsStatus(dealData, deal, by) ==
  LET headers == At(dealData, 0)
      row0 == At(dealData, deal._rowIndex - 1)
      row2 == SetAt(row0, indexOf(headers, "approved_by"), by)
  IN SetAt(row2, indexOf(headers, "approved_at"), getCurrentTimestamp)

ApprovedRow(dealData, deal, by) ==
  LET headers == At(dealData, 0)
      row0 == At(dealData, deal._rowIndex - 1)
      row1 == SetAt(row0, indexOf(headers, "status"), approved)
      row2 == SetAt(row1, indexOf(headers, "approved_by"), by)
  IN SetAt(row2, indexOf(headers, "approved_at"), getCurrentTimestamp)

\* Mutant: the reason is stored as sent, not trimmed.
RejectedRowUntrimmed(dealData, deal, by, rejection_reason) ==
  LET headers == At(dealData, 0)
      row0 == At(dealData, deal._rowIndex - 1)
      row1 == SetAt(row0, indexOf(headers, "status"), rejected)
      row2 == SetAt(row1, indexOf(headers, "approved_by"), by)
      row3 == SetAt(row2, indexOf(headers, "approved_at"), getCurrentTimestamp)
  IN SetAt(row3, indexOf(headers, "rejection_reason"), rejection_reason)

RejectedRow(dealData, deal, by, rejection_reason) ==
  LET headers == At(dealData, 0)
      row0 == At(dealData, deal._rowIndex - 1)
      row1 == SetAt(row0, indexOf(headers, "status"), rejected)
      row2 == SetAt(row1, indexOf(headers, "approved_by"), by)
      row3 == SetAt(row2, indexOf(headers, "approved_at"), getCurrentTimestamp)
  IN SetAt(row3, indexOf(headers, "rejection_reason"), trim(rejection_reason))

\* approver_name || userEmail
By(rq) == OrElse(rq.approver_name, rq.email)

\* const dealData = await getSheetData('Deals'); updatedRow is built from it
RereadDeals(r, updatedRow) ==
  /\ Goto(r, "update", [deal |-> local[r].deal, updatedRow |-> updatedRow])
  /\ UNCHANGED <<sheets, failures, hist>>

\* await updateRow('Deals', dealRowIndex, updatedRow)
UpdateDeal(r) ==
  /\ sheets' = updateRow(sheets, "Deals", local[r].deal._rowIndex, local[r].updatedRow)
  /\ hist' = [hist EXCEPT ![r].updates = @ + 1]
  /\ Goto(r, "audit", local[r])
  /\ UNCHANGED failures

ApproveAuditData(r, rq) ==
  <<generateId(r, 1), rq.id, rq.email, approved, getCurrentTimestamp,
    <<"b","y"," ">> \o By(rq)>>

RejectAuditData(r, rq) ==
  <<generateId(r, 1), rq.id, rq.email, rejected, getCurrentTimestamp,
    <<"b","y"," ">> \o By(rq) \o <<":"," ">> \o rq.rejection_reason>>

\* Mutant: the entry is written over the log instead of after it.
AppendAuditOverwrites(r, auditData, status) ==
  /\ sheets' = [sheets EXCEPT !.Audit_Log = <<auditData>>]
  /\ hist' = [hist EXCEPT ![r].audits = @ + 1]
  /\ Respond(r, [code |-> 200, error |-> "", dealId |-> req[r].id, status |-> status])
  /\ UNCHANGED failures

\* await appendToSheet('Audit_Log', auditData); res.json({...})
AppendAudit(r, auditData, status) ==
  /\ sheets' = appendToSheet(sheets, "Audit_Log", auditData)
  /\ hist' = [hist EXCEPT ![r].audits = @ + 1]
  /\ Respond(r, [code |-> 200, error |-> "", dealId |-> req[r].id, status |-> status])
  /\ UNCHANGED failures

ApproveStart(r, id, approver_name, email) ==
  /\ Start(r, [kind |-> "approve", id |-> id, approver_name |-> approver_name,
               email |-> email])
  /\ hist' = [hist EXCEPT ![r].startStatus = StatusOf(id), ![r].settled = Settled(id)]

\* requireAdmin, then the handler up to its first await
ApproveAdmit(r) ==
  /\ pc[r] = "admit" /\ req[r].kind = "approve"
  /\ IF ~requireAdmin(req[r].email)
     THEN Respond(r, [code |-> 403, error |-> "Access denied"])
     ELSE Goto(r, "find", Null)
  /\ UNCHANGED <<sheets, failures, hist>>

ApproveFind(r) ==
  /\ pc[r] = "find" /\ req[r].kind = "approve"
  /\ \/ FindDeal(r, "Deal cannot be approved")
     \/ StoreError(r, "Failed to approve deal")

ApproveReread(r) ==
  /\ pc[r] = "reread" /\ req[r].kind = "approve"
  /\ \/ RereadDeals(r, ApprovedRow(getSheetData("Deals"), local[r].deal, By(req[r])))
     \/ StoreError(r, "Failed to approve deal")

ApproveUpdate(r) ==
  /\ pc[r] = "update" /\ req[r].kind = "approve"
  /\ \/ UpdateDeal(r)
     \/ StoreError(r, "Failed to approve deal")

ApproveAudit(r) ==
  /\ pc[r] = "audit" /\ req[r].kind = "approve"
  /\ \/ AppendAudit(r, ApproveAuditData(r, req[r]), approved)
     \/ StoreError(r, "Failed to approve deal")

RejectStart(r, id, approver_name, rejection_reason, email) ==
  /\ Start(r, [kind |-> "reject", id |-> id, approver_name |-> approver_name,
               rejection_reason |-> rejection_reason, email |-> email])
  /\ hist' = [hist EXCEPT ![r].startStatus = StatusOf(id), ![r].settled = Settled(id)]

\* Mutant: a reason of spaces only is accepted.
ReasonMissingUntrimmed(rejection_reason) == Falsy(rejection_reason)

\* !rejection_reason || rejection_reason.trim() === ''
ReasonMissing(rejection_reason) ==
  Falsy(rejection_reason) \/ trim(rejection_reason) = <<>>

\* requireAdmin, then the handler up to its first await
RejectAdmit(r) ==
  /\ pc[r] = "admit" /\ req[r].kind = "reject"
  /\ IF ~requireAdmin(req[r].email)
     THEN Respond(r, [code |-> 403, error |-> "Access denied"])
     ELSE IF ReasonMissing(req[r].rejection_reason)
          THEN Respond(r, [code |-> 400, error |-> "Rejection reason is required"])
          ELSE Goto(r, "find", Null)
  /\ UNCHANGED <<sheets, failures, hist>>

RejectFind(r) ==
  /\ pc[r] = "find" /\ req[r].kind = "reject"
  /\ \/ FindDeal(r, "Deal cannot be rejected")
     \/ StoreError(r, "Failed to reject deal")

RejectReread(r) ==
  /\ pc[r] = "reread" /\ req[r].kind = "reject"
  /\ \/ RereadDeals(r, RejectedRow(getSheetData("Deals"), local[r].deal, By(req[r]),
                                   req[r].rejection_reason))
     \/ StoreError(r, "Failed to reject deal")

RejectUpdate(r) ==
  /\ pc[r] = "update" /\ req[r].kind = "reject"
  /\ \/ UpdateDeal(r)
     \/ StoreError(r, "Failed to reject deal")

RejectAudit(r) ==
  /\ pc[r] = "audit" /\ req[r].kind = "reject"
  /\ \/ AppendAudit(r, RejectAuditData(r, req[r]), rejected)
     \/ StoreError(r, "Failed to reject deal")

---------------------------------------------------------------------------
(* dealController: POST /deals *)

\* Mutant: a deal is a duplicate only if both name and domain match.
RECURSIVE duplicatesLoopBoth(_, _, _, _, _)
duplicatesLoopBoth(deals, companyName, domain, i, duplicates) ==
  IF i >= Len(deals) THEN duplicates
  ELSE LET headers == At(deals, 0)
           row == At(deals, i)
           existingCompany == OrElse(At(row, indexOf(headers, "company_name")), <<>>)
           existingDomain == OrElse(At(row, indexOf(headers, "domain")), <<>>)
           existingStatus == OrElse(At(row, indexOf(headers, "status")), <<>>)
           isDuplicate ==
             /\ existingStatus # rejected
             /\ toLowerCase(existingCompany) = toLowerCase(companyName)
             /\ toLowerCase(existingDomain) = toLowerCase(domain)
       IN duplicatesLoopBoth(deals, companyName, domain, i + 1,
                             IF isDuplicate THEN Append(duplicates, rowObject(headers, row))
                             ELSE duplicates)

\* Mutant: rejected deals count as duplicates too.
RECURSIVE duplicatesLoopAnyStatus(_, _, _, _, _)
duplicatesLoopAnyStatus(deals, companyName, domain, i, duplicates) ==
  IF i >= Len(deals) THEN duplicates
  ELSE LET headers == At(deals, 0)
           row == At(deals, i)
           existingCompany == OrElse(At(row, indexOf(headers, "company_name")), <<>>)
           existingDomain == OrElse(At(row, indexOf(headers, "domain")), <<>>)
           isDuplicate ==
             \/ toLowerCase(existingCompany) = toLowerCase(companyName)
             \/ toLowerCase(existingDomain) = toLowerCase(domain)
       IN duplicatesLoopAnyStatus(deals, companyName, domain, i + 1,
                                  IF isDuplicate
                                  THEN Append(duplicates, rowObject(headers, row))
                                  ELSE duplicates)

RECURSIVE duplicatesLoop(_, _, _, _, _)
duplicatesLoop(deals, companyName, domain, i, duplicates) ==
  IF i >= Len(deals) THEN duplicates
  ELSE LET headers == At(deals, 0)
           row == At(deals, i)
           existingCompany == OrElse(At(row, indexOf(headers, "company_name")), <<>>)
           existingDomain == OrElse(At(row, indexOf(headers, "domain")), <<>>)
           existingStatus == OrElse(At(row, indexOf(headers, "status")), <<>>)
           isDuplicate ==
             /\ existingStatus # rejected
             /\ \/ toLowerCase(existingCompany) = toLowerCase(companyName)
                \/ toLowerCase(existingDomain) = toLowerCase(domain)
       IN duplicatesLoop(deals, companyName, domain, i + 1,
                         IF isDuplicate THEN Append(duplicates, rowObject(headers, row))
                         ELSE duplicates)

\* checkDuplicateDeals once getSheetData('Deals') has returned deals
checkDuplicateDeals(deals, companyName, domain) ==
  LET duplicates == IF Len(deals) > 1
                    THEN duplicatesLoop(deals, companyName, domain, 1, <<>>)
                    ELSE <<>>
  IN [hasDuplicates |-> Len(duplicates) > 0, duplicates |-> duplicates]

\* checkDuplicateDeals when getSheetData('Deals') throws: the catch's value
checkDuplicateDealsCatch == [hasDuplicates |-> FALSE, duplicates |-> <<>>]

\* Mutant: the result of the duplicate check is not looked at.
AfterDuplicateCheckIgnored(r, duplicateCheck) ==
  Goto(r, "findCustomer", [duplicateCheck |-> duplicateCheck])

\* if (duplicateCheck.hasDuplicates) return 409; else createOrFindCustomer
AfterDuplicateCheck(r, duplicateCheck) ==
  IF duplicateCheck.hasDuplicates
  THEN Respond(r, [code |-> 409, error |-> "Potential duplicate deal detected",
                   duplicates |-> duplicateCheck.duplicates])
  ELSE Goto(r, "findCustomer", [duplicateCheck |-> duplicateCheck])

CustomerRecord(r, rq) ==
  <<generateId(r, 1), rq.companyName, rq.domain, getCurrentTimestamp, getCurrentTimestamp>>

\* Mutant: the deal is written without the id of its customer.
DealDataWithoutCustomer(r, rq, customer) ==
  <<generateId(r, 2), <<>>, submitted, rq.partnerCompany, rq.companyName,
    rq.domain, <<>>, <<>>, getCurrentTimestamp, getCurrentTimestamp>>

DealData(r, rq, customer) ==
  <<generateId(r, 2), customer.id, submitted, rq.partnerCompany, rq.companyName,
    rq.domain, <<>>, <<>>, getCurrentTimestamp, getCurrentTimestamp>>

CreateStart(r, b) ==
  /\ Start(r, b)
  /\ UNCHANGED hist

\* Mutant: the submitter's email is not among the required fields.
CreateValidateWithoutEmail(r) ==
  /\ pc[r] = "admit" /\ req[r].kind = "createDeal"
  /\ IF \/ Falsy(req[r].companyName) \/ Falsy(req[r].domain)
        \/ Falsy(req[r].partnerCompany)
        \/ Falsy(req[r].submitterName)
     THEN Respond(r, [code |-> 400, error |-> "Missing required fields"])
     ELSE IF ~req[r].agreedToTerms
          THEN Respond(r, [code |-> 400, error |-> "Must agree to terms and conditions"])
          ELSE Goto(r, "checkDup", Null)
  /\ UNCHANGED <<sheets, failures, hist>>

\* the handler's basic validation, up to its first await
CreateValidate(r) ==
  /\ pc[r] = "admit" /\ req[r].kind = "createDeal"
  /\ IF \/ Falsy(req[r].companyName) \/ Falsy(req[r].domain)
        \/ Falsy(req[r].partnerCompany)
        \/ Falsy(req[r].submitterName) \/ Falsy(req[r].submitterEmail)
     THEN Respond(r, [code |-> 400, error |-> "Missing required fields"])
     ELSE IF ~req[r].agreedToTerms
          THEN Respond(r, [code |-> 400, error |-> "Must agree to terms and conditions"])
          ELSE Goto(r, "checkDup", Null)
  /\ UNCHANGED <<sheets, failures, hist>>

\* Mutant: checkDuplicateDeals rethrows, and createDeal's catch answers 500.
DuplicateReadRaises(r) ==
  /\ failures < MaxFail
  /\ failures' = failures + 1
  /\ hist' = [hist EXCEPT ![r].readFailed = TRUE]
  /\ Respond(r, [code |-> 500, error |-> "Failed to create deal registration"])
  /\ UNCHANGED sheets

\* getSheetData('Deals') throws inside checkDuplicateDeals: its catch
\* returns, and createDeal goes on with what it returned
DuplicateReadFails(r) ==
  /\ failures < MaxFail
  /\ failures' = failures + 1
  /\ hist' = [hist EXCEPT ![r].readFailed = TRUE]
  /\ AfterDuplicateCheck(r, checkDuplicateDealsCatch)
  /\ UNCHANGED sheets

\* const duplicateCheck = await checkDuplicateDeals(companyName, domain)
CreateCheckDup(r) ==
  /\ pc[r] = "checkDup"
  /\ \/ /\ AfterDuplicateCheck(r, checkDuplicateDeals(getSheetData("Deals"),
                                                       req[r].companyName, req[r].domain))
        /\ UNCHANGED <<sheets, failures, hist>>
     \/ DuplicateReadFails(r)

\* Mutant: the customer is created without looking for an existing one.
CreateFindCustomerAlwaysCreates(r) ==
  /\ pc[r] = "findCustomer"
  /\ \/ /\ Goto(r, "appendCustomer", Null)
        /\ UNCHANGED <<sheets, failures, hist>>
     \/ StoreError(r, "Failed to create deal registration")

\* Mutant: the customer is looked up with the letter case ignored.
CreateFindCustomerIgnoringCase(r) ==
  /\ pc[r] = "findCustomer"
  /\ \/ LET data == getSheetData("Customers")
            column == indexOf(CustomersHeader, "domain")
            lowered == [k \in 1..Len(data) |->
                          IF k = 1 THEN data[k]
                          ELSE SetAt(data[k], column, toLowerCase(At(data[k], column)))]
            customer == findRowIn(lowered, "domain", toLowerCase(req[r].domain))
        IN /\ IF customer = Null
              THEN Goto(r, "appendCustomer", Null)
              ELSE Goto(r, "appendDeal", [customer |-> customer])
           /\ UNCHANGED <<sheets, failures, hist>>
     \/ StoreError(r, "Failed to create deal registration")

\* createOrFindCustomer: let customer = await findRowByValue('Customers', ...)
CreateFindCustomer(r) ==
  /\ pc[r] = "findCustomer"
  /\ \/ LET customer == findRowByValue("Customers", "domain", req[r].domain)
        IN /\ IF customer = Null
              THEN Goto(r, "appendCustomer", Null)
              ELSE Goto(r, "appendDeal", [customer |-> customer])
           /\ UNCHANGED <<sheets, failures, hist>>
     \/ StoreError(r, "Failed to create deal registration")

\* await appendToSheet('Customers', customerRecord)
CreateAppendCustomer(r) ==
  /\ pc[r] = "appendCustomer"
  /\ \/ /\ sheets' = appendToSheet(sheets, "Customers", CustomerRecord(r, req[r]))
              /\ hist' = [hist EXCEPT ![r].customerRows = @ + 1]
        /\ Goto(r, "refindCustomer", Null)
        /\ UNCHANGED failures
     \/ StoreError(r, "Failed to create deal registration")

\* customer = await findRowByValue('Customers', 'domain', customerData.domain)
CreateRefindCustomer(r) ==
  /\ pc[r] = "refindCustomer"
  /\ \/ LET customer == findRowByValue("Customers", "domain", req[r].domain)
        IN /\ IF customer = Null
              THEN Respond(r, [code |-> 500, error |-> "Failed to create deal registration"])
              ELSE Goto(r, "appendDeal", [customer |-> customer])
           /\ UNCHANGED <<sheets, failures, hist>>
     \/ StoreError(r, "Failed to create deal registration")

\* await appendToSheet('Deals', dealData)
CreateAppendDeal(r) ==
  /\ pc[r] = "appendDeal"
  /\ \/ /\ sheets' = appendToSheet(sheets, "Deals", DealData(r, req[r], local[r].customer))
              /\ hist' = [hist EXCEPT ![r].dealRows = @ + 1]
        /\ Goto(r, "findCreated", Null)
        /\ UNCHANGED failures
     \/ StoreError(r, "Failed to create deal registration")

\* const createdDeal = await findRowByValue('Deals', 'company_name', companyName)
CreateFindCreated(r) ==
  /\ pc[r] = "findCreated"
  /\ \/ LET createdDeal == findRowByValue("Deals", "company_name", req[r].companyName)
        IN /\ IF createdDeal = Null
              THEN Respond(r, [code |-> 500, error |-> "Failed to create deal registration"])
              ELSE Respond(r, [code |-> 201, error |-> "", dealId |-> createdDeal.id,
                               status |-> submitted])
           /\ UNCHANGED <<sheets, failures, hist>>
     \/ StoreError(r, "Failed to create deal registration")

---------------------------------------------------------------------------
(* The requests the model issues *)

\* Company name and domain of the submissions: the pairs collide with one
\* another on name and domain, with or without a difference of letter
\* case, or on the domain only.
Candidates == { <<<<"A">>, <<"X">>>>, <<<<"a">>, <<"x">>>>, <<<<"B">>, <<"X">>>> }

ValidBody(companyName, domain) ==
  [kind |-> "createDeal", companyName |-> companyName, domain |-> domain,
   partnerCompany |-> <<"P">>, submitterName |-> <<"N">>, submitterEmail |-> <<"p","@","x">>,
   agreedToTerms |-> TRUE]

SubmitBodies ==
  {ValidBody(c[1], c[2]) : c \in Candidates}
  \cup {[ValidBody(<<"A">>, <<"X">>) EXCEPT ![f] = <<>>] :
          f \in {"companyName", "domain", "partnerCompany", "submitterName", "submitterEmail"}}
  \cup {[ValidBody(<<"A">>, <<"X">>) EXCEPT !.agreedToTerms = FALSE]}

\* The signed-in users: an allowlisted admin (as typed, and as Google returns
\* it with capitals) and a partner user; approver_name is optional.
Actors ==
  {[email |-> <<"a","d","m","i","n","@","d","a","x","a",".","a","i">>, approver_name |-> Undefined],
   [email |-> <<"A","d","m","i","n","@","D","a","x","a",".","a","i">>, approver_name |-> <<"Z">>],
   [email |-> <<"p","@","x">>, approver_name |-> Undefined]}

GoodReason == <<" ","r"," ">>
BlankReasons == {Undefined, <<>>, <<" ">>}

\* Who rejects and why: each actor with a reason, one admin without one
Rejections ==
  {[actor |-> a, reason |-> GoodReason] : a \in Actors}
  \cup {[actor |-> a, reason |-> reason] :
          a \in {b \in Actors : b.approver_name = Undefined /\ requireAdmin(b.email)},
          reason \in BlankReasons}

\* The ids a client can name: those of the deals listed to it, and a stale one
DealIds == {At(row, 0) : row \in Range(sheets.Deals)} \cup {<<"I","D","_","0">>}

Init ==
  /\ sheets = [Deals |-> <<>>, Customers |-> <<>>, Audit_Log |-> <<>>]
  /\ failures = 0
  /\ pc = [r \in Requests |-> "idle"]
  /\ req = [r \in Requests |-> Null]
  /\ local = [r \in Requests |-> Null]
  /\ res = [r \in Requests |-> [code |-> 0, error |-> ""]]
  /\ hist = [r \in Requests |-> NoHist]

Next ==
  \E r \in Requests :
    \/ \E b \in SubmitBodies : CreateStart(r, b)
    \/ CreateValidate(r)
    \/ CreateCheckDup(r)
    \/ CreateFindCustomer(r)
    \/ CreateAppendCustomer(r)
    \/ CreateRefindCustomer(r)
    \/ CreateAppendDeal(r)
    \/ CreateFindCreated(r)
    \/ \E id \in DealIds, a \in Actors : ApproveStart(r, id, a.approver_name, a.email)
    \/ ApproveAdmit(r)
    \/ ApproveFind(r)
    \/ ApproveReread(r)
    \/ ApproveUpdate(r)
    \/ ApproveAudit(r)
    \/ \E id \in DealIds, x \in Rejections :
          RejectStart(r, id, x.actor.approver_name, x.reason, x.actor.email)
    \/ RejectAdmit(r)
    \/ RejectFind(r)
    \/ RejectReread(r)
    \/ RejectUpdate(r)
    \/ RejectAudit(r)

Spec == Init /\ [][Next]_vars

---------------------------------------------------------------------------
(* checkDuplicateDeals on its own, over the Deals sheets of a bounded size *)

\* Number of deals in the sheet the duplicate check is applied to.
MaxRows == 2

DupCandidates == { <<<<"A">>, <<"X">>>>, <<<<"a">>, <<"x">>>>,
                   <<<<"A">>, <<"Y">>>>, <<<<"B">>, <<"X">>>> }

\* The row of the k-th deal as createDeal appends it and as an approve or a
\* reject leaves it
StoredDeal(k, c, status) ==
  LET fresh == DealData(k, ValidBody(c[1], c[2]), [id |-> generateId(k, 1)])
      dealData == <<DealsHeader, fresh>>
      by == <<"a","d","m","i","n","@","d","a","x","a",".","a","i">>
  IN IF status = approved THEN ApprovedRow(dealData, [_rowIndex |-> 2], by)
     ELSE IF status = rejected THEN RejectedRow(dealData, [_rowIndex |-> 2], by, GoodReason)
     ELSE fresh

DupTables ==
  UNION {{[k \in 1..n |-> StoredDeal(k, f[k][1], f[k][2])] :
            f \in [1..n -> DupCandidates \X {submitted, approved, rejected}]} :
         n \in 0..MaxRows}

InitDup ==
  /\ sheets \in {[Deals |-> t, Customers |-> <<>>, Audit_Log |-> <<>>] : t \in DupTables}
  /\ failures = 0
  /\ pc = [r \in Requests |-> "idle"]
  /\ req = [r \in Requests |-> Null]
  /\ local = [r \in Requests |-> Null]
  /\ res = [r \in Requests |-> [code |-> 0, error |-> ""]]
  /\ hist = [r \in Requests |-> NoHist]

\* checkDuplicateDeals(companyName, domain) is called and returns
DuplicateCheck(r, companyName, domain) ==
  /\ pc[r] = "idle" /\ r = 1
  /\ req' = [req EXCEPT ![r] = [kind |-> "checkDuplicateDeals",
                                companyName |-> companyName, domain |-> domain]]
  /\ pc' = [pc EXCEPT ![r] = "checked"]
  /\ local' = [local EXCEPT ![r] =
                 [duplicateCheck |->
                    checkDuplicateDeals(getSheetData("Deals"), companyName, domain)]]
  /\ UNCHANGED <<sheets, failures, res, hist>>

NextDup == \E r \in Requests, c \in DupCandidates : DuplicateCheck(r, c[1], c[2])

SpecDup == InitDup /\ [][NextDup]_vars

---------------------------------------------------------------------------
(* getEstimatedApprovalTime on its own, over deal values as clients write them *)

Digits == <<"0","1","2","3","4","5","6","7","8","9">>

IsDigit(c) == \E i \in 1..Len(Digits) : Digits[i] = c

DigitValue(c) == (CHOOSE i \in 1..Len(Digits) : Digits[i] = c) - 1

RECURSIVE DigitsValue(_)
DigitsValue(ds) ==
  IF ds = <<>> THEN 0
  ELSE DigitsValue(SubSeq(ds, 1, Len(ds) - 1)) * 10 + DigitValue(ds[Len(ds)])

\* dealValue.replace(/[^0-9.]/g, '')
stripNonNumeric(s) == SelectSeq(s, LAMBDA c : IsDigit(c) \/ c = ".")

\* The length of the run of digits of s that starts at position k
RECURSIVE digitRun(_, _)
digitRun(s, k) == IF k <= Len(s) /\ IsDigit(s[k]) THEN 1 + digitRun(s, k + 1) ELSE 0

\* parseFloat(text) for a text of digits and dots: the longest prefix that
\* is a decimal literal (digits, then optionally a dot and digits; or a dot
\* and at least one digit); NaN when there is none
parseFloat(s) ==
  LET n == digitRun(s, 1)
      hasDot == n + 1 <= Len(s) /\ s[n + 1] = "."
      m == IF hasDot THEN digitRun(s, n + 2) ELSE 0
  IN [isNaN |-> n = 0 /\ m = 0,
      whole |-> DigitsValue(SubSeq(s, 1, n)),
      fraction |-> IF hasDot THEN SubSeq(s, n + 2, n + 1 + m) ELSE <<>>]

\* value >= bound for a whole bound: the fraction is not negative, and every
\* comparison with NaN is false
GreaterEq(value, bound) == ~value.isNaN /\ value.whole >= bound

getEstimatedApprovalTime(dealValue) ==
  LET text == IF dealValue = Undefined THEN Undefined ELSE stripNonNumeric(dealValue)
      value == parseFloat(OrElse(text, <<"0">>))
  IN IF GreaterEq(value, 500000) THEN "3-5 business days"
     ELSE IF GreaterEq(value, 100000) THEN "2-3 business days"
     ELSE "1-2 business days"

\* Deal values: a sign, a currency symbol, the whole part with or without
\* thousands separators, a fraction, an exponent
Numerals ==
  [sign : {<<>>, <<"-">>}, currency : {<<>>, <<"$">>},
   whole : {<<"0">>, <<"5">>, <<"9","9","9","9","9">>, <<"1","0","0","0","0","0">>,
            <<"4","9","9","9","9","9">>, <<"5","0","0","0","0","0">>,
            <<"6","0","0","0","0","0">>},
   grouped : BOOLEAN,
   fraction : {<<>>, <<"5">>},
   exponent : {<<>>, <<"1">>, <<"5">>}]

\* The whole part with a comma before each group of three digits
RECURSIVE Grouped(_)
Grouped(ds) ==
  IF Len(ds) <= 3 THEN ds
  ELSE Grouped(SubSeq(ds, 1, Len(ds) - 3)) \o <<",">> \o SubSeq(ds, Len(ds) - 2, Len(ds))

\* The text of a numeral, as typed into the deal value field
Written(n) ==
  n.sign \o n.currency
  \o (IF n.grouped THEN Grouped(n.whole) ELSE n.whole)
  \o (IF n.fraction = <<>> THEN <<>> ELSE <<".">> \o n.fraction)
  \o (IF n.exponent = <<>> THEN <<>> ELSE <<"e">> \o n.exponent)

\* Texts that are no numeral, and the missing value
OtherValues == {Undefined, <<>>, <<".">>, <<"n","/","a">>, <<"1",".","2",".","3">>}

\* getEstimatedApprovalTime(dealValue) is called and returns
EstimateTime(r, numeral, dealValue) ==
  /\ pc[r] = "idle" /\ r = 1
  /\ req' = [req EXCEPT ![r] = [kind |-> "getEstimatedApprovalTime",
                                numeral |-> numeral, dealValue |-> dealValue]]
  /\ pc' = [pc EXCEPT ![r] = "estimated"]
  /\ local' = [local EXCEPT ![r] =
                 [estimatedApprovalTime |-> getEstimatedApprovalTime(dealValue)]]
  /\ UNCHANGED <<sheets, failures, res, hist>>

NextBand ==
  \E r \in Requests :
    \/ \E n \in Numerals : EstimateTime(r, n, Written(n))
    \/ \E v \in OtherValues : EstimateTime(r, Null, v)

SpecBand == Init /\ [][NextBand]_vars

---------------------------------------------------------------------------
(* The admin routes behind their middleware: authenticateToken, requireAdmin *)

\* Number of requests sent to the admin routes.
MaxAuthReq == 2

active == <<"a","c","t","i","v","e">>
pending == <<"p","e","n","d","i","n","g">>
admin == <<"a","d","m","i","n">>
partner_user == <<"p","a","r","t","n","e","r","_","u","s","e","r">>

\* UsersModel.findById(id)
findById(id) == findRowByValue("Users", "id", id)

\* The Users sheet: an operator of the static list, a user whose role is
\* 'admin', a user listed in Admins, a partner user (with a revoked Admins
\* entry), and an operator of the static list whose account is not active
StoredUsers ==
  << <<<<"U","1">>, <<"P","1">>, <<"A","d","m","i","n","@","d","a","x","a",".","a","i">>, <<>>,
       partner_user, active>>,
     <<<<"U","2">>, <<"P","1">>, <<"r","@","x">>, <<>>, admin, active>>,
     <<<<"U","3">>, <<"P","1">>, <<"e","@","x">>, <<>>, partner_user, active>>,
     <<<<"U","4">>, <<"P","1">>, <<"p","@","x">>, <<>>, partner_user, active>>,
     <<<<"U","5">>, <<"P","1">>, <<"a","p","o","o","r","v","a","@","d","a","x","a",".","a","i">>,
       <<>>, partner_user, pending>> >>

StoredAdmins ==
  << <<<<"e","@","x">>, active>>,
     <<<<"p","@","x">>, <<"r","e","m","o","v","e","d">>>> >>

\* One deal of each status
StoredDeals ==
  << StoredDeal(1, <<<<"A">>, <<"X">>>>, submitted),
     StoredDeal(2, <<<<"B">>, <<"Y">>>>, approved),
     StoredDeal(3, <<<<"C">>, <<"Z">>>>, rejected) >>

\* What jwt.verify makes of the Authorization header: no token, a token
\* that does not verify, an expired one, or the id a valid token carries
Tokens ==
  {[verify |-> "no token"], [verify |-> "JsonWebTokenError"]}
  \cup {[verify |-> "TokenExpiredError", id |-> <<"U","1">>]}
  \cup {[verify |-> "ok", id |-> id] :
          id \in {At(row, 0) : row \in Range(StoredUsers)} \cup {<<"U","0">>}}

InitAuth ==
  /\ sheets = [Deals |-> StoredDeals, Customers |-> <<>>, Audit_Log |-> <<>>,
               Users |-> StoredUsers, Admins |-> StoredAdmins]
  /\ failures = 0
  /\ pc = [r \in Requests |-> "idle"]
  /\ req = [r \in Requests |-> Null]
  /\ local = [r \in Requests |-> Null]
  /\ res = [r \in Requests |-> [code |-> 0, error |-> ""]]
  /\ hist = [r \in Requests |-> NoHist]

\* POST /deals/:id/approve or /deals/:id/reject arrives with its
\* Authorization header
AuthStart(r, kind, token, id) ==
  /\ r <= MaxAuthReq
  /\ Arrives(r)
  /\ req' = [req EXCEPT ![r] =
               [kind |-> kind, token |-> token, id |-> id, approver_name |-> Undefined,
                rejection_reason |-> GoodReason, email |-> Undefined, role |-> Undefined]]
  /\ pc' = [pc EXCEPT ![r] = "token"]
  /\ hist' = [hist EXCEPT ![r].startStatus = StatusOf(id), ![r].settled = Settled(id)]
  /\ UNCHANGED <<sheets, failures, local, res>>

\* authenticateToken up to its await: the token is taken from the header
\* and jwt.verify is applied
AuthVerify(r) ==
  /\ pc[r] = "token"
  /\ IF req[r].token.verify = "no token"
     THEN Respond(r, [code |-> 401, error |-> "Access token required"])
     ELSE IF req[r].token.verify = "JsonWebTokenError"
          THEN Respond(r, [code |-> 401, error |-> "Invalid token"])
          ELSE IF req[r].token.verify = "TokenExpiredError"
               THEN Respond(r, [code |-> 401, error |-> "Token expired"])
               ELSE Goto(r, "loadUser", Null)
  /\ UNCHANGED <<sheets, failures, hist>>

\* Mutant: the status of the loaded user is not looked at.
AuthLoadUserAnyStatus(r) ==
  /\ pc[r] = "loadUser"
  /\ \/ LET user == findById(req[r].token.id)
        IN /\ IF user = Null
              THEN Respond(r, [code |-> 401, error |-> "Invalid or inactive user"])
              ELSE /\ req' = [req EXCEPT ![r].email = user.email, ![r].role = user.role]
                   /\ pc' = [pc EXCEPT ![r] = "admit"]
                   /\ UNCHANGED <<res, local>>
           /\ UNCHANGED <<sheets, failures, hist>>
     \/ StoreError(r, "Authentication error")

\* const user = await UsersModel.findById(decoded.id), the check of the
\* user, req.user, and next()
AuthLoadUser(r) ==
  /\ pc[r] = "loadUser"
  /\ \/ LET user == findById(req[r].token.id)
        IN /\ IF user = Null
              THEN Respond(r, [code |-> 401, error |-> "Invalid or inactive user"])
              ELSE IF user.status # active
                   THEN Respond(r, [code |-> 401, error |-> "Invalid or inactive user"])
                   ELSE /\ req' = [req EXCEPT ![r].email = user.email, ![r].role = user.role]
                        /\ pc' = [pc EXCEPT ![r] = "admit"]
                        /\ UNCHANGED <<res, local>>
           /\ UNCHANGED <<sheets, failures, hist>>
     \/ StoreError(r, "Authentication error")

NextAuth ==
  \E r \in Requests :
    \/ \E kind \in {"approve", "reject"}, token \in Tokens, id \in DealIds :
         AuthStart(r, kind, token, id)
    \/ AuthVerify(r)
    \/ AuthLoadUser(r)
    \/ ApproveAdmit(r)
    \/ ApproveFind(r)
    \/ ApproveReread(r)
    \/ ApproveUpdate(r)
    \/ ApproveAudit(r)
    \/ RejectAdmit(r)
    \/ RejectFind(r)
    \/ RejectReread(r)
    \/ RejectUpdate(r)
    \/ RejectAudit(r)

SpecAuth == InitAuth /\ [][NextAuth]_vars

---------------------------------------------------------------------------
(* getDeals: GET /deals?status=&partner=&limit= *)

\* const { limit = 50 } = req.query
DefaultLimit == 50

\* Number(text), as the comparison 'length < limit' converts a query text
\* made of digits, dots and spaces: the empty text is 0, a decimal literal
\* is its value, anything else is NaN
toNumber(text) ==
  LET s == trim(text)
      n == digitRun(s, 1)
      hasDot == n + 1 <= Len(s) /\ s[n + 1] = "."
      m == IF hasDot THEN digitRun(s, n + 2) ELSE 0
      literal == /\ n + m > 0
                 /\ Len(s) = (IF hasDot THEN n + 1 + m ELSE n)
  IN IF s = <<>> THEN [isNaN |-> FALSE, whole |-> 0, fraction |-> <<>>]
     ELSE [isNaN |-> ~literal,
           whole |-> DigitsValue(SubSeq(s, 1, n)),
           fraction |-> IF hasDot THEN SubSeq(s, n + 2, n + 1 + m) ELSE <<>>]

\* The number that 'length < limit' compares with: the default when the
\* query has no limit, otherwise the number its text converts to
limitValue(limit) ==
  IF limit = Undefined THEN [isNaN |-> FALSE, whole |-> DefaultLimit, fraction |-> <<>>]
  ELSE toNumber(limit)

\* length < limit
LessThan(length, limit) ==
  LET v == limitValue(limit)
  IN /\ ~v.isNaN
     /\ \/ length < v.whole
        \/ length = v.whole /\ \E k \in 1..Len(v.fraction) : v.fraction[k] # "0"

\* for (let i = 1; i < deals.length && dealRecords.length < limit; i++)
RECURSIVE dealRecordsLoop(_, _, _, _, _, _)
dealRecordsLoop(deals, status, partner, limit, i, dealRecords) ==
  IF ~(i < Len(deals) /\ LessThan(Len(dealRecords), limit)) THEN dealRecords
  ELSE LET deal == rowObject(At(deals, 0), At(deals, i))
           skipped == \/ ~Falsy(status) /\ deal.status # status
                      \/ ~Falsy(partner) /\ deal.partner_company # partner
       IN dealRecordsLoop(deals, status, partner, limit, i + 1,
                          IF skipped THEN dealRecords ELSE Append(dealRecords, deal))

\* The deals a listing is applied to: partner company and status vary
ListedDeal(k, partner, status) ==
  LET fresh == DealData(k, [ValidBody(<<"A">>, <<"X">>) EXCEPT !.partnerCompany = partner],
                        [id |-> generateId(k, 1)])
      dealData == <<DealsHeader, fresh>>
      by == <<"a","d","m","i","n","@","d","a","x","a",".","a","i">>
  IN IF status = approved THEN ApprovedRow(dealData, [_rowIndex |-> 2], by)
     ELSE IF status = rejected THEN RejectedRow(dealData, [_rowIndex |-> 2], by, GoodReason)
     ELSE fresh

ListTables ==
  UNION {{[k \in 1..n |-> ListedDeal(k, f[k][1], f[k][2])] :
            f \in [1..n -> {<<"P">>, <<"Q">>} \X {submitted, approved, rejected}]} :
         n \in 0..MaxRows}

\* req.query: each parameter may be absent; limit arrives as text
Queries ==
  [status : {Undefined, <<>>, submitted, approved},
   partner : {Undefined, <<"P">>, <<"Q">>},
   limit : {Undefined, <<"0">>, <<"1">>, <<"2">>, <<"1",".","5">>, <<>>, <<"?">>}]

InitList ==
  /\ sheets \in {[Deals |-> t, Customers |-> <<>>, Audit_Log |-> <<>>] : t \in ListTables}
  /\ failures = 0
  /\ pc = [r \in Requests |-> "idle"]
  /\ req = [r \in Requests |-> Null]
  /\ local = [r \in Requests |-> Null]
  /\ res = [r \in Requests |-> [code |-> 0, error |-> ""]]
  /\ hist = [r \in Requests |-> NoHist]

\* GET /deals arrives
ListStart(r, query) ==
  /\ r = 1
  /\ Arrives(r)
  /\ req' = [req EXCEPT ![r] = [kind |-> "getDeals", query |-> query]]
  /\ pc' = [pc EXCEPT ![r] = "list"]
  /\ UNCHANGED <<sheets, failures, local, res, hist>>

\* getDeals: const deals = await getSheetData('Deals'), the loop, res.json
GetDeals(r) ==
  /\ pc[r] = "list"
  /\ \/ LET deals == getSheetData("Deals")
            query == req[r].query
            dealRecords ==
              dealRecordsLoop(deals, query.status, query.partner, query.limit, 1, <<>>)
        IN /\ IF Len(deals) < 2
              THEN Respond(r, [code |-> 200, error |-> "", deals |-> <<>>, total |-> 0,
                               message |-> "No deals found"])
              ELSE Respond(r, [code |-> 200, error |-> "", deals |-> dealRecords,
                               total |-> Len(dealRecords),
                               filters |-> [status |-> query.status,
                                            partner |-> query.partner,
                                            limit |-> limitValue(query.limit)]])
           /\ UNCHANGED <<sheets, failures, hist>>
     \/ StoreError(r, "Failed to retrieve deals")

NextList ==
  \E r \in Requests :
    \/ \E query \in Queries : ListStart(r, query)
    \/ GetDeals(r)

SpecList == InitList /\ [][NextList]_vars

---------------------------------------------------------------------------
(* AuthService: registerUser, loginUser, googleLogin, and the tokens they    *)
(* issue presented to authenticateToken                                     *)

\* Number of calls of the AuthService and of requests bearing its tokens.
MaxUserReq == 3

\* bcrypt.hash(password, saltRounds): a text that is never empty and from
\* which compare tells the password it was made of
bcryptHash(password) == <<"$">> \o password

\* bcrypt.compare(password, hash): false for a text that is no hash
bcryptCompare(password, hash) == hash # <<>> /\ hash = bcryptHash(password)

\* text.split('@')[1]
RECURSIVE upTo(_, _)
upTo(s, c) == IF s = <<>> \/ Head(s) = c THEN <<>> ELSE <<Head(s)>> \o upTo(Tail(s), c)

splitSecond(s, c) ==
  LET first == upTo(s, c)
  IN IF Len(first) = Len(s) THEN Undefined
     ELSE upTo(SubSeq(s, Len(first) + 2, Len(s)), c)

findUserByEmail(email) == findRowByValue("Users", "email", email)

findPartnerByName(companyName) == findRowByValue("Partners", "company_name", companyName)

findPartnerById(partnerId) == findRowByValue("Partners", "id", partnerId)

\* jwt.sign(payload): the token, as jwt.verify reads it back
generateTokens(user) == [accessToken |-> [verify |-> "ok", id |-> user.id]]

\* partner?.company_name || 'Unknown Partner'
partnerName(partner) ==
  IF partner = Null THEN <<"U","n","k","n","o","w","n"," ","P","a","r","t","n","e","r">>
  ELSE OrElse(partner.company_name, <<"U","n","k","n","o","w","n"," ","P","a","r","t","n","e","r">>)

\* The method throws: its caller's promise rejects with the message
Throw(r, message) ==
  Respond(r, [code |-> 0, error |-> message])

\* The method returns
Return(r, value) ==
  Respond(r, [code |-> 0, error |-> "", value |-> value])

\* The awaited store call rejects; the catch logs and rethrows
StoreThrows(r) ==
  /\ failures < MaxFail
  /\ failures' = failures + 1
  /\ hist' = [hist EXCEPT ![r].failed = TRUE]
  /\ Throw(r, "store error")
  /\ UNCHANGED sheets

\* The call is made: nothing of the method has run yet
Call(r, rq, label) ==
  /\ Arrives(r)
  /\ req' = [req EXCEPT ![r] = rq]
  /\ pc' = [pc EXCEPT ![r] = label]
  /\ UNCHANGED <<sheets, failures, local, res, hist>>

PartnerData(r, company) == <<generateId(r, 1), company>>

\* registerUser: role 'partner_user', status 'pending'
RegisterUserData(r, partner, email, passwordHash) ==
  <<generateId(r, 2), partner.id, email, passwordHash, partner_user, pending>>

\* googleLogin: no password, role 'partner_user', status 'active'
GoogleUserData(r, partner, email) ==
  <<generateId(r, 2), partner.id, email, <<>>, partner_user, active>>

RegisterStart(r, email, password, company) ==
  /\ r <= MaxUserReq
  /\ Call(r, [kind |-> "registerUser", email |-> email, password |-> password,
              company |-> company], "findUser")

\* const existingUser = await this.findUserByEmail(email); bcrypt.hash
RegisterFindUser(r) ==
  /\ pc[r] = "findUser" /\ req[r].kind = "registerUser"
  /\ \/ /\ IF findUserByEmail(req[r].email) # Null
           THEN Throw(r, "User already exists with this email")
           ELSE Goto(r, "findPartner", [passwordHash |-> bcryptHash(req[r].password)])
        /\ UNCHANGED <<sheets, failures, hist>>
     \/ StoreThrows(r)

\* let partner = await this.findPartnerByName(name)
FindPartner(r, name) ==
  /\ pc[r] = "findPartner"
  /\ \/ LET partner == findPartnerByName(name)
        IN /\ IF partner = Null
              THEN Goto(r, "appendPartner", local[r])
              ELSE Goto(r, "appendUser", [partner |-> partner] @@ local[r])
           /\ UNCHANGED <<sheets, failures, hist>>
     \/ StoreThrows(r)

\* await appendToSheet('Partners', partnerData)
AppendPartner(r, name) ==
  /\ pc[r] = "appendPartner"
  /\ \/ /\ sheets' = appendToSheet(sheets, "Partners", PartnerData(r, name))
        /\ Goto(r, "refindPartner", local[r])
        /\ UNCHANGED <<failures, hist>>
     \/ StoreThrows(r)

\* partner = await this.findPartnerByName(name); partner.id is read next
RefindPartner(r, name) ==
  /\ pc[r] = "refindPartner"
  /\ \/ LET partner == findPartnerByName(name)
        IN /\ IF partner = Null
              THEN Throw(r, "TypeError")
              ELSE Goto(r, "appendUser", [partner |-> partner] @@ local[r])
           /\ UNCHANGED <<sheets, failures, hist>>
     \/ StoreThrows(r)

\* await appendToSheet('Users', userData)
AppendUser(r, userData) ==
  /\ pc[r] = "appendUser"
  /\ \/ /\ sheets' = appendToSheet(sheets, "Users", userData)
        /\ Goto(r, "refindUser", local[r])
        /\ UNCHANGED <<failures, hist>>
     \/ StoreThrows(r)

RegisterFindPartner(r) ==
  /\ pc[r] = "findPartner" /\ req[r].kind = "registerUser"
  /\ FindPartner(r, req[r].company)

RegisterAppendPartner(r) ==
  /\ pc[r] = "appendPartner" /\ req[r].kind = "registerUser"
  /\ AppendPartner(r, req[r].company)

RegisterRefindPartner(r) ==
  /\ pc[r] = "refindPartner" /\ req[r].kind = "registerUser"
  /\ RefindPartner(r, req[r].company)

RegisterAppendUser(r) ==
  /\ pc[r] = "appendUser" /\ req[r].kind = "registerUser"
  /\ AppendUser(r, RegisterUserData(r, local[r].partner, req[r].email, local[r].passwordHash))

\* const user = await this.findUserByEmail(email); return {...}
RegisterRefindUser(r) ==
  /\ pc[r] = "refindUser" /\ req[r].kind = "registerUser"
  /\ \/ LET user == findUserByEmail(req[r].email)
        IN /\ IF user = Null
              THEN Throw(r, "TypeError")
              ELSE Return(r, [id |-> user.id, email |-> user.email, role |-> user.role,
                              status |-> user.status,
                              partnerName |-> local[r].partner.company_name])
           /\ UNCHANGED <<sheets, failures, hist>>
     \/ StoreThrows(r)

LoginStart(r, email, password) ==
  /\ r <= MaxUserReq
  /\ Call(r, [kind |-> "loginUser", email |-> email, password |-> password], "findUser")

\* Mutant: an account that is not active may sign in.
LoginFindUserAnyStatus(r) ==
  /\ pc[r] = "findUser" /\ req[r].kind = "loginUser"
  /\ \/ LET user == findUserByEmail(req[r].email)
        IN /\ IF user = Null
              THEN Throw(r, "Invalid credentials or account not active")
              ELSE IF ~bcryptCompare(req[r].password, user.password_hash)
                   THEN Throw(r, "Invalid credentials")
                   ELSE Goto(r, "findPartnerById", [user |-> user])
           /\ UNCHANGED <<sheets, failures, hist>>
     \/ StoreThrows(r)

\* const user = await this.findUserByEmail(email), the check of the user,
\* bcrypt.compare
LoginFindUser(r) ==
  /\ pc[r] = "findUser" /\ req[r].kind = "loginUser"
  /\ \/ LET user == findUserByEmail(req[r].email)
        IN /\ IF user = Null
              THEN Throw(r, "Invalid credentials or account not active")
              ELSE IF user.status # active
                   THEN Throw(r, "Invalid credentials or account not active")
                   ELSE IF ~bcryptCompare(req[r].password, user.password_hash)
                        THEN Throw(r, "Invalid credentials")
                        ELSE Goto(r, "findPartnerById", [user |-> user])
           /\ UNCHANGED <<sheets, failures, hist>>
     \/ StoreThrows(r)

\* const partner = await this.findPartnerById(user.partner_id); the tokens
\* are generated and the method returns
FindPartnerById(r) ==
  /\ pc[r] = "findPartnerById"
  /\ \/ LET user == local[r].user
            partner == findPartnerById(user.partner_id)
        IN /\ Return(r, [user |-> [id |-> user.id, email |-> user.email,
                                   role |-> user.role, partnerId |-> user.partner_id,
                                   partnerName |-> partnerName(partner)]]
                        @@ generateTokens(user))
           /\ UNCHANGED <<sheets, failures, hist>>
     \/ StoreThrows(r)

GoogleStart(r, email) ==
  /\ r <= MaxUserReq
  /\ Call(r, [kind |-> "googleLogin", email |-> email], "findUser")

\* let user = await this.findUserByEmail(googleUser.email)
GoogleFindUser(r) ==
  /\ pc[r] = "findUser" /\ req[r].kind = "googleLogin"
  /\ \/ LET user == findUserByEmail(req[r].email)
        IN /\ IF user = Null
              THEN Goto(r, "findPartner", [domain |-> splitSecond(req[r].email, "@")])
              ELSE Goto(r, "findPartnerById", [user |-> user])
           /\ UNCHANGED <<sheets, failures, hist>>
     \/ StoreThrows(r)

GoogleFindPartner(r) ==
  /\ pc[r] = "findPartner" /\ req[r].kind = "googleLogin"
  /\ FindPartner(r, local[r].domain)

GoogleAppendPartner(r) ==
  /\ pc[r] = "appendPartner" /\ req[r].kind = "googleLogin"
  /\ AppendPartner(r, local[r].domain)

GoogleRefindPartner(r) ==
  /\ pc[r] = "refindPartner" /\ req[r].kind = "googleLogin"
  /\ RefindPartner(r, local[r].domain)

GoogleAppendUser(r) ==
  /\ pc[r] = "appendUser" /\ req[r].kind = "googleLogin"
  /\ AppendUser(r, GoogleUserData(r, local[r].partner, req[r].email))

\* user = await this.findUserByEmail(googleUser.email); user.id is read next
GoogleRefindUser(r) ==
  /\ pc[r] = "refindUser" /\ req[r].kind = "googleLogin"
  /\ \/ LET user == findUserByEmail(req[r].email)
        IN /\ IF user = Null
              THEN Throw(r, "TypeError")
              ELSE Goto(r, "findPartnerById", [user |-> user])
           /\ UNCHANGED <<sheets, failures, hist>>
     \/ StoreThrows(r)

\* A request to an admin route arrives with a token in its Authorization
\* header
BearerStart(r, token) ==
  /\ r <= MaxUserReq
  /\ Call(r, [kind |-> "approve", token |-> token, id |-> <<"I","D","_","0">>,
              approver_name |-> Undefined, email |-> Undefined, role |-> Undefined], "token")

\* The people who sign up and sign in: the second address differs from the
\* first in the company only
Emails == {<<"u","@","x">>, <<"u","@","y">>}
Passwords == {<<"p">>, <<"q">>}
Companies == {<<"x">>}

\* The tokens a request may bear: those of the ids of the stored users
BearerTokens == {[verify |-> "ok", id |-> At(row, 0)] : row \in Range(sheets.Users)}

InitUsers ==
  /\ sheets = [Deals |-> <<>>, Customers |-> <<>>, Audit_Log |-> <<>>,
               Users |-> <<>>, Partners |-> <<>>, Admins |-> <<>>]
  /\ failures = 0
  /\ pc = [r \in Requests |-> "idle"]
  /\ req = [r \in Requests |-> Null]
  /\ local = [r \in Requests |-> Null]
  /\ res = [r \in Requests |-> [code |-> 0, error |-> ""]]
  /\ hist = [r \in Requests |-> NoHist]

NextUsers ==
  \E r \in Requests :
    \/ \E email \in Emails, company \in Companies :
         RegisterStart(r, email, <<"p">>, company)
    \/ RegisterFindUser(r)
    \/ RegisterFindPartner(r)
    \/ RegisterAppendPartner(r)
    \/ RegisterRefindPartner(r)
    \/ RegisterAppendUser(r)
    \/ RegisterRefindUser(r)
    \/ \E email \in Emails, password \in Passwords : LoginStart(r, email, password)
    \/ LoginFindUser(r)
    \/ \E email \in Emails : GoogleStart(r, email)
    \/ GoogleFindUser(r)
    \/ GoogleFindPartner(r)
    \/ GoogleAppendPartner(r)
    \/ GoogleRefindPartner(r)
    \/ GoogleAppendUser(r)
    \/ GoogleRefindUser(r)
    \/ FindPartnerById(r)
    \/ \E token \in BearerTokens : BearerStart(r, token)
    \/ AuthVerify(r)
    \/ AuthLoadUser(r)
    \/ ApproveAdmit(r)

SpecUsers == InitUsers /\ [][NextUsers]_vars

---------------------------------------------------------------------------
(* The deal handlers and the AuthService side by side on one spreadsheet *)

\* One submission, one admin, one person who signs up and signs in
TheBody == ValidBody(<<"A">>, <<"X">>)
TheAdmin == [email |-> <<"a","d","m","i","n","@","d","a","x","a",".","a","i">>,
             approver_name |-> Undefined]
TheEmail == <<"u","@","x">>

NextAll ==
  \E r \in Requests :
    \/ CreateStart(r, TheBody)
    \/ CreateValidate(r)
    \/ CreateCheckDup(r)
    \/ CreateFindCustomer(r)
    \/ CreateAppendCustomer(r)
    \/ CreateRefindCustomer(r)
    \/ CreateAppendDeal(r)
    \/ CreateFindCreated(r)
    \/ \E id \in DealIds : ApproveStart(r, id, TheAdmin.approver_name, TheAdmin.email)
    \/ ApproveAdmit(r)
    \/ ApproveFind(r)
    \/ ApproveReread(r)
    \/ ApproveUpdate(r)
    \/ ApproveAudit(r)
    \/ \E id \in DealIds :
         RejectStart(r, id, TheAdmin.approver_name, GoodReason, TheAdmin.email)
    \/ RejectAdmit(r)
    \/ RejectFind(r)
    \/ RejectReread(r)
    \/ RejectUpdate(r)
    \/ RejectAudit(r)
    \/ RegisterStart(r, TheEmail, <<"p">>, <<"x">>)
    \/ RegisterFindUser(r)
    \/ RegisterFindPartner(r)
    \/ RegisterAppendPartner(r)
    \/ RegisterRefindPartner(r)
    \/ RegisterAppendUser(r)
    \/ RegisterRefindUser(r)
    \/ LoginStart(r, TheEmail, <<"p">>)
    \/ LoginFindUser(r)
    \/ GoogleStart(r, TheEmail)
    \/ GoogleFindUser(r)
    \/ GoogleFindPartner(r)
    \/ GoogleAppendPartner(r)
    \/ GoogleRefindPartner(r)
    \/ GoogleAppendUser(r)
    \/ GoogleRefindUser(r)
    \/ FindPartnerById(r)

SpecAll == InitUsers /\ [][NextAll]_vars

---------------------------------------------------------------------------
(* findRowByValue on its own, over the tables that getSheetData may return *)

\* What a cell may hold, what is searched for, and the column names
CellTexts == {<<>>, <<"v">>}
SearchTexts == {<<>>, <<"v">>, <<"w">>}
ColumnNames == {"a", "b", "c"}

\* The header rows: two columns, three columns, and two columns of one name
FindHeaders == {<<"a", "b">>, <<"b", "c", "a">>, <<"a", "b", "a">>}

\* The rows as the Sheets API returns them: a row ends at its last cell
\* that is not empty, so rows differ in length
FindRows == UNION {[1..n -> CellTexts] : n \in 0..3}

\* response.data.values || []: no row at all, or a header and the rows
FindTables ==
  {<<>>} \cup UNION {{<<headers>> \o rows : headers \in FindHeaders, rows \in [1..n -> FindRows]} :
                       n \in 0..MaxRows}

\* findRowByValue(sheetName, searchColumn, searchValue) is called on a sheet
\* holding data, and returns
FindRow(r, data, searchColumn, searchValue) ==
  /\ pc[r] = "idle" /\ r = 1
  /\ req' = [req EXCEPT ![r] = [kind |-> "findRowByValue", data |-> data,
                                searchColumn |-> searchColumn,
                                searchValue |-> searchValue]]
  /\ pc' = [pc EXCEPT ![r] = "found"]
  /\ local' = [local EXCEPT ![r] = [rowData |-> findRowIn(data, searchColumn, searchValue)]]
  /\ UNCHANGED <<sheets, failures, res, hist>>

NextFind ==
  \E r \in Requests :
    /\ pc[r] = "idle" /\ r = 1
    /\ \E data \in FindTables, searchColumn \in ColumnNames, searchValue \in SearchTexts :
         FindRow(r, data, searchColumn, searchValue)

SpecFind == Init /\ [][NextFind]_vars

---------------------------------------------------------------------------
(* GET /deals/stats, beside the handlers that write the Deals sheet *)

\* The deals that are stored when the requests begin: submitted earlier,
\* each under a company name and a domain of its own, the first approved
\* since, the second rejected, the third neither, and so on
StatsCompany(k) == <<<<"C", ToString(k)>>, <<"Z", ToString(k)>>>>

StatsStatus(k) == <<approved, rejected, submitted>>[((k - 1) % 3) + 1]

StatsTables ==
  {[k \in 1..n |-> StoredDeal(MaxReq + k, StatsCompany(k), StatsStatus(k))] : n \in 0..MaxRows}

InitStats ==
  /\ sheets \in {[Deals |-> t, Customers |-> <<>>, Audit_Log |-> <<>>] : t \in StatsTables}
  /\ failures = 0
  /\ pc = [r \in Requests |-> "idle"]
  /\ req = [r \in Requests |-> Null]
  /\ local = [r \in Requests |-> Null]
  /\ res = [r \in Requests |-> [code |-> 0, error |-> ""]]
  /\ hist = [r \in Requests |-> NoHist]

\* Who asks for the statistics: the admin, and a partner user
StatsEmails == {TheAdmin.email, <<"p","@","x">>}

\* GET /deals/stats arrives, authenticated
StatsStart(r, email) ==
  /\ Start(r, [kind |-> "stats", email |-> email])
  /\ UNCHANGED hist

\* requireAdmin, then the handler up to its await
StatsAdmit(r) ==
  /\ pc[r] = "admit" /\ req[r].kind = "stats"
  /\ IF ~requireAdmin(req[r].email)
     THEN Respond(r, [code |-> 403, error |-> "Access denied"])
     ELSE Goto(r, "stats", Null)
  /\ UNCHANGED <<sheets, failures, hist>>

\* for (let i = 1; i < deals.length; i++): the count by status
RECURSIVE statsLoop(_, _, _)
statsLoop(deals, i, stats) ==
  IF ~(i < Len(deals)) THEN stats
  ELSE LET deal == rowObject(At(deals, 0), At(deals, i))
       IN statsLoop(deals, i + 1,
            IF deal.status = submitted THEN [stats EXCEPT !.submitted = @ + 1]
            ELSE IF deal.status = approved THEN [stats EXCEPT !.approved = @ + 1]
            ELSE IF deal.status = rejected THEN [stats EXCEPT !.rejected = @ + 1]
            ELSE stats)

\* Mutant: the header row is counted as a deal.
GetStatsCountingHeader(r) ==
  /\ pc[r] = "stats"
  /\ \/ LET deals == getSheetData("Deals")
            stats == [total |-> Len(deals), submitted |-> 0, approved |-> 0,
                      rejected |-> 0]
        IN /\ IF Len(deals) <= 1
              THEN Respond(r, [code |-> 200, error |-> "",
                               stats |-> [total |-> 0, submitted |-> 0, approved |-> 0,
                                          rejected |-> 0]])
              ELSE Respond(r, [code |-> 200, error |-> "",
                               stats |-> statsLoop(deals, 1, stats)])
           /\ UNCHANGED <<sheets, failures, hist>>
     \/ StoreError(r, "Failed to retrieve statistics")

\* const deals = await getSheetData('Deals'), the loop, res.json.  The
\* answer's totalValue and averageApprovalTime are sums over the deal_value
\* column and over clock readings, which the sheets here do not hold; they
\* enter none of the four counters.
GetStats(r) ==
  /\ pc[r] = "stats"
  /\ \/ LET deals == getSheetData("Deals")
            stats == [total |-> Len(deals) - 1, submitted |-> 0, approved |-> 0,
                      rejected |-> 0]
        IN /\ IF Len(deals) <= 1
              THEN Respond(r, [code |-> 200, error |-> "",
                               stats |-> [total |-> 0, submitted |-> 0, approved |-> 0,
                                          rejected |-> 0]])
              ELSE Respond(r, [code |-> 200, error |-> "",
                               stats |-> statsLoop(deals, 1, stats)])
           /\ UNCHANGED <<sheets, failures, hist>>
     \/ StoreError(r, "Failed to retrieve statistics")

NextStats ==
  \E r \in Requests :
    \/ CreateStart(r, TheBody)
    \/ CreateValidate(r)
    \/ CreateCheckDup(r)
    \/ CreateFindCustomer(r)
    \/ CreateAppendCustomer(r)
    \/ CreateRefindCustomer(r)
    \/ CreateAppendDeal(r)
    \/ CreateFindCreated(r)
    \/ \E id \in DealIds : ApproveStart(r, id, TheAdmin.approver_name, TheAdmin.email)
    \/ ApproveAdmit(r)
    \/ ApproveFind(r)
    \/ ApproveReread(r)
    \/ ApproveUpdate(r)
    \/ ApproveAudit(r)
    \/ \E id \in DealIds :
         RejectStart(r, id, TheAdmin.approver_name, GoodReason, TheAdmin.email)
    \/ RejectAdmit(r)
    \/ RejectFind(r)
    \/ RejectReread(r)
    \/ RejectUpdate(r)
    \/ RejectAudit(r)
    \/ \E email \in StatsEmails : StatsStart(r, email)
    \/ StatsAdmit(r)
    \/ GetStats(r)

SpecStats == InitStats /\ [][NextStats]_vars

---------------------------------------------------------------------------
(* QuickCheckStep: the first step of the registration form.  Request 1 is   *)
(* the mounted component (req: formData, local: its state); the others are  *)
(* its calls of apiClient.checkDuplicates.                                  *)

IsAlnum(c) == IsDigit(c) \/ \E i \in 1..Len(Upper) : Upper[i] = c \/ Lower[i] = c

\* /^[a-zA-Z0-9\s\-&.,()]+$/
validPattern(s) ==
  /\ s # <<>>
  /\ \A i \in 1..Len(s) :
       IsAlnum(s[i]) \/ IsSpace(s[i]) \/ s[i] \in {"-", "&", ".", ",", "(", ")"}

\* The validators return a message or null: null is the empty message here
validateCompanyName(value) ==
  IF Falsy(value) \/ trim(value) = <<>> THEN "Enter a valid company name"
  ELSE IF Len(trim(value)) < 2 THEN "Company name too short"
  ELSE IF Len(trim(value)) > 100 THEN "Company name too long"
  ELSE IF ~validPattern(trim(value)) THEN "Enter a valid company name"
  ELSE ""

TopLevelDomains ==
  {<<"c","o","m">>, <<"a","i">>, <<"o","r","g">>, <<"n","e","t">>, <<"i","o">>,
   <<"c","o">>, <<"b","i","z">>, <<"i","n","f","o">>, <<"t","e","c","h">>,
   <<"d","e","v">>, <<"a","p","p">>, <<"c","l","o","u","d">>, <<"e","d","u">>,
   <<"g","o","v">>, <<"m","i","l">>}

\* /^[a-zA-Z0-9][a-zA-Z0-9-]*[a-zA-Z0-9]*\.(com|ai|...|mil)$/i
domainPattern(s) ==
  LET label == upTo(s, ".")
  IN /\ label # <<>> /\ Len(label) < Len(s)
     /\ IsAlnum(label[1])
     /\ \A i \in 1..Len(label) : IsAlnum(label[i]) \/ label[i] = "-"
     /\ toLowerCase(SubSeq(s, Len(label) + 2, Len(s))) \in TopLevelDomains

validateDomain(value) ==
  IF Falsy(value) \/ trim(value) = <<>> THEN "Enter a valid domain"
  ELSE IF ~domainPattern(trim(value)) THEN "Enter a valid domain"
  ELSE ""

\* The useState values of a component that has just been mounted
MountedState ==
  [duplicateDeals |-> <<>>, isCheckingDuplicates |-> FALSE, duplicateCheckTimer |-> Null,
   duplicateCheckCompleted |-> FALSE, hasTriggeredCheck |-> FALSE]

\* triggerDuplicateCheck: the state it leaves.  duplicateCheckTimer is the
\* pending timeout with the arguments of its callback; a timeout that was
\* cleared or has fired is as none.
triggerDuplicateCheck(state, companyName, domain) ==
  IF /\ validateCompanyName(companyName) = "" /\ validateDomain(domain) = ""
     /\ trim(companyName) # <<>> /\ trim(domain) # <<>>
  THEN [state EXCEPT !.duplicateCheckCompleted = FALSE, !.duplicateDeals = <<>>,
                     !.hasTriggeredCheck = TRUE, !.isCheckingDuplicates = TRUE,
                     !.duplicateCheckTimer = [companyName |-> companyName,
                                              domain |-> domain]]
  ELSE [state EXCEPT !.duplicateCheckCompleted = FALSE, !.duplicateDeals = <<>>,
                     !.hasTriggeredCheck = FALSE, !.isCheckingDuplicates = FALSE,
                     !.duplicateCheckTimer = Null]

isFormValid(formData, state) ==
  /\ validateCompanyName(OrElse(formData.companyName, <<>>)) = ""
  /\ validateDomain(OrElse(formData.domain, <<>>)) = ""
  /\ ~(Len(state.duplicateDeals) > 0)
  /\ ~state.isCheckingDuplicates

\* onChange of a field, whose value has changed.  (The messages under the fields, validationErrors
\* and their timers, are display only: isFormValid validates the fields
\* itself and does not read them.)
HandleInputChange(field, value) ==
  /\ pc[1] = "mounted"
  /\ value # req[1][field]
  /\ LET formData == [req[1] EXCEPT ![field] = value]
     IN /\ req' = [req EXCEPT ![1] = formData]
        /\ local' = [local EXCEPT ![1] =
                       triggerDuplicateCheck(@, OrElse(formData.companyName, <<>>),
                                             OrElse(formData.domain, <<>>))]
  /\ UNCHANGED <<sheets, failures, pc, res, hist>>

\* onBlur of a field, whose value is the one in formData
HandleBlur(field) ==
  /\ pc[1] = "mounted"
  /\ local' = [local EXCEPT ![1] =
                 triggerDuplicateCheck(@, OrElse(req[1].companyName, <<>>),
                                       OrElse(req[1].domain, <<>>))]
  /\ UNCHANGED <<sheets, failures, pc, req, res, hist>>

\* The timeout of triggerDuplicateCheck fires: checkForDuplicates up to its
\* await, request r being its call of apiClient.checkDuplicates.  The
\* call's arguments stay in req[r] after it has returned.
CheckForDuplicates(r) ==
  /\ pc[1] = "mounted" /\ local[1].duplicateCheckTimer # Null
  /\ r # 1 /\ pc[r] = "idle" /\ pc[r - 1] # "idle"
  /\ req' = [req EXCEPT ![r] = [kind |-> "checkDuplicates",
                                companyName |-> trim(local[1].duplicateCheckTimer.companyName),
                                domain |-> trim(local[1].duplicateCheckTimer.domain)]]
  /\ pc' = [pc EXCEPT ![r] = "checking"]
  /\ local' = [local EXCEPT ![1].duplicateDeals = <<>>,
                            ![1].duplicateCheckCompleted = FALSE,
                            ![1].duplicateCheckTimer = Null]
  /\ UNCHANGED <<sheets, failures, res, hist>>

\* checkForDuplicates after its await: the setters of a component that has
\* been unmounted do nothing
checkForDuplicatesFinally(duplicates) ==
  IF pc[1] # "mounted" THEN local
  ELSE [local EXCEPT ![1].duplicateDeals = IF Len(duplicates) > 0 THEN duplicates ELSE @,
                     ![1].isCheckingDuplicates = FALSE,
                     ![1].duplicateCheckCompleted = TRUE]

\* The deal that /deals/check-duplicate reports for what was sent
DuplicateOf(rq) == [company_name |-> rq.companyName, domain |-> rq.domain]

Responses(rq) == {[success |-> TRUE], [duplicates |-> <<>>],
                  [duplicates |-> <<DuplicateOf(rq)>>]}

\* The response of /deals/check-duplicate arrives: data.duplicates may be
\* absent, empty, or the deals that match what was sent
CheckResponds(r) ==
  /\ r # 1 /\ pc[r] = "checking"
  /\ \E data \in Responses(req[r]) :
       /\ res' = [res EXCEPT ![r] = [code |-> 200, error |-> "", data |-> data]]
       /\ local' = checkForDuplicatesFinally(IF "duplicates" \in DOMAIN data THEN data.duplicates
                                ELSE <<>>)
  /\ pc' = [pc EXCEPT ![r] = "done"]
  /\ UNCHANGED <<sheets, failures, req, hist>>

\* apiClient.request throws: the catch logs, the finally runs
CheckFails(r) ==
  /\ r # 1 /\ pc[r] = "checking"
  /\ failures < MaxFail
  /\ failures' = failures + 1
  /\ hist' = [hist EXCEPT ![r].failed = TRUE]
  /\ pc' = [pc EXCEPT ![r] = "done"]
  /\ res' = [res EXCEPT ![r] = [code |-> 0, error |-> "API request failed"]]
  /\ local' = checkForDuplicatesFinally(<<>>)
  /\ UNCHANGED <<sheets, req>>

\* handleNext: onNext() shows the next step, and the cleanup of the
\* unmounted component clears its timers
HandleNext ==
  /\ pc[1] = "mounted"
  /\ isFormValid(req[1], local[1])
  /\ pc' = [pc EXCEPT ![1] = "next"]
  /\ local' = [local EXCEPT ![1].duplicateCheckTimer = Null]
  /\ UNCHANGED <<sheets, failures, req, res, hist>>

\* What is typed into the fields: nothing, a name (also with a space after
\* it) and another name; nothing, a domain and another domain
CompanyNames == {<<>>, <<"A","b">>, <<"A","b"," ">>, <<"C","d">>}
Domains == {<<>>, <<"x",".","a","i">>, <<"y",".","I","O">>}

InitForm ==
  /\ sheets = [Deals |-> <<>>, Customers |-> <<>>, Audit_Log |-> <<>>]
  /\ failures = 0
  /\ pc = [r \in Requests |-> IF r = 1 THEN "mounted" ELSE "idle"]
  /\ req = [r \in Requests |->
              IF r = 1 THEN [kind |-> "QuickCheckStep", companyName |-> <<>>, domain |-> <<>>]
              ELSE Null]
  /\ local = [r \in Requests |-> IF r = 1 THEN MountedState ELSE Null]
  /\ res = [r \in Requests |-> [code |-> 0, error |-> ""]]
  /\ hist = [r \in Requests |-> NoHist]

NextForm ==
  \/ \E value \in CompanyNames : HandleInputChange("companyName", value)
  \/ \E value \in Domains : HandleInputChange("domain", value)
  \/ \E field \in {"companyName", "domain"} : HandleBlur(field)
  \/ HandleNext
  \/ \E r \in Requests :
       \/ CheckForDuplicates(r)
       \/ CheckResponds(r)
       \/ CheckFails(r)

SpecForm == InitForm /\ [][NextForm]_vars

---------------------------------------------------------------------------
(* Properties *)

\* The cell of a Deals row under a column name, read as the handlers read it
Cell(row, name) == OrElse(At(row, indexOf(DealsHeader, name)), <<>>)

AuditCell(row, name) == OrElse(At(row, indexOf(AuditHeader, name)), <<>>)

DealRows == Range(sheets.Deals)

Terminal(status) == status \in {approved, rejected}

\* The error kinds of the specification, as the handlers answer them
IsInvalidTransition(x) ==
  x.code = 400 /\ x.error \in {"Deal cannot be approved", "Deal cannot be rejected"}

IsReasonRequired(x) == x.code = 400 /\ x.error = "Rejection reason is required"

IsDuplicateConflict(x) == x.code = 409

\* A reason that is missing, empty or made of spaces only
Blank(reason) == reason = Undefined \/ \A k \in 1..Len(reason) : reason[k] = " "

\* The text between the first and the last character that is not a space
Trimmed(t) ==
  LET solid == {k \in 1..Len(t) : t[k] # " "}
  IN IF solid = {} THEN <<>>
     ELSE SubSeq(t, CHOOSE k \in solid : \A j \in solid : k <= j,
                    CHOOSE k \in solid : \A j \in solid : k >= j)

\* Two texts that differ at most in the case of their letters
SameIgnoringCase(t, u) ==
  /\ Len(t) = Len(u)
  /\ \A k \in 1..Len(t) :
       \/ t[k] = u[k]
       \/ \E n \in 1..Len(Upper) : {t[k], u[k]} = {Upper[n], Lower[n]}

\* A deal that stands in the way of a submission of this name and domain
Collides(row, companyName, domain) ==
  /\ Cell(row, "status") # rejected
  /\ \/ SameIgnoringCase(Cell(row, "company_name"), companyName)
     \/ SameIgnoringCase(Cell(row, "domain"), domain)

\* Request r takes a step
Steps(r) == pc'[r] # pc[r]

\* The request arrived when the deal's stored status was 'approved' or
\* 'rejected' and the requests that had made it so had returned
StartsAfterTransition(r) == Terminal(hist[r].startStatus) /\ hist[r].settled

\* C1 as stated: an approve or reject request of an admin that starts after
\* the deal has left 'submitted', and meets no store failure, fails with
\* InvalidTransition, writes no Deal row and appends no audit entry.
C1_AlwaysInvalidTransition ==
  \A r \in Requests :
    (StartsAfterTransition(r) /\ pc[r] = "done" /\ res[r].code \notin {403, 500})
      => /\ IsInvalidTransition(res[r])
         /\ hist[r].updates = 0
         /\ hist[r].audits = 0

\* C1 amended: such a request never gets past the status check, writes no
\* Deal row and appends no audit entry; it fails with InvalidTransition,
\* except that a reject without a reason fails with ValidationError before
\* the deal is looked up, and a failed read answers StoreUnavailable.
C1_SingleShot ==
  \A r \in Requests :
    StartsAfterTransition(r)
      => /\ hist[r].updates = 0
         /\ hist[r].audits = 0
         /\ pc[r] \notin {"reread", "update", "audit"}
         /\ pc[r] = "done"
              => \/ IsInvalidTransition(res[r])
                 \/ IsReasonRequired(res[r])
                 \/ res[r].code = 403
                 \/ res[r].code = 500 /\ hist[r].failed

C1_Witness ==
  \E r \in Requests :
    /\ StartsAfterTransition(r)
    /\ pc[r] = "done"
    /\ IsInvalidTransition(res[r])

\* C2: once the stored status of a deal is 'approved' or 'rejected', no
\* step changes it.
C2_StatusMonotonic ==
  [][\A i \in 1..Len(sheets.Deals) :
       Terminal(Cell(sheets.Deals[i], "status"))
         => Cell(sheets'.Deals[i], "status") = Cell(sheets.Deals[i], "status")]_vars

\* C3: the Audit_Log holds at most one entry per deal id, and at most one
\* approve or reject request per deal id has answered success.
C3_NoDoubleLogging ==
  \A row \in DealRows :
    LET id == Cell(row, "id")
    IN /\ Cardinality({k \in 1..Len(sheets.Audit_Log) :
                         AuditCell(sheets.Audit_Log[k], "deal_id") = id}) <= 1
       /\ Cardinality({r \in Requests :
                         pc[r] = "done" /\ res[r].code = 200 /\ res[r].dealId = id}) <= 1

\* C4: a Deal row whose status is 'submitted' has empty approved_by,
\* approved_at and rejection_reason.
C4_SubmittedIsUntouched ==
  \A row \in DealRows :
    Cell(row, "status") = submitted
      => /\ Cell(row, "approved_by") = <<>>
         /\ Cell(row, "approved_at") = <<>>
         /\ Cell(row, "rejection_reason") = <<>>

\* A fresh deal beside one that an approve or a reject has written
C4_Witness ==
  /\ \E row \in DealRows : Cell(row, "status") = submitted
  /\ \E row \in DealRows : Terminal(Cell(row, "status"))

\* C5: when the reject handler runs for an admin with a missing, empty or
\* blank reason, it answers ValidationError and the sheets are unchanged,
\* whatever the deal id and the deal's status.
C5_BlankReasonRefused ==
  [][\A r \in Requests :
       (/\ pc[r] = "admit" /\ req[r].kind = "reject" /\ Steps(r)
        /\ requireAdmin(req[r].email)
        /\ Blank(req[r].rejection_reason))
         => /\ pc'[r] = "done"
            /\ IsReasonRequired(res'[r])
            /\ sheets' = sheets]_vars

C5_Witness ==
  \E r \in Requests :
    /\ pc[r] = "done"
    /\ IsReasonRequired(res[r])
    /\ hist[r].startStatus = submitted
    /\ hist[r].updates = 0
    /\ \E row \in DealRows : Cell(row, "status") = submitted

\* The Deals row that holds a deal id
RowOf(sh, id) == CHOOSE row \in Range(sh.Deals) : Cell(row, "id") = id

\* C6: the write of an approve (reject) leaves the deal's row with status
\* 'approved' ('rejected'), approved_by and approved_at filled, and for a
\* reject the trimmed reason; the request that answers success has written
\* once and appends exactly one audit entry with the deal id, the actor's
\* email and the action.
C6_TransitionEffect ==
  [][\A r \in Requests :
       /\ (pc[r] = "update" /\ pc'[r] = "audit")
            => LET row == RowOf(sheets', req[r].id)
               IN /\ Cell(row, "status")
                       = (IF req[r].kind = "approve" THEN approved ELSE rejected)
                  /\ Cell(row, "approved_by") # <<>>
                  /\ Cell(row, "approved_by")
                       = (IF req[r].approver_name = Undefined THEN req[r].email
                          ELSE req[r].approver_name)
                  /\ Cell(row, "approved_at") # <<>>
                  /\ req[r].kind = "reject"
                       => Cell(row, "rejection_reason") = Trimmed(req[r].rejection_reason)
       /\ (pc[r] = "audit" /\ pc'[r] = "done" /\ res'[r].code = 200)
            => /\ hist'[r].updates = 1
               /\ hist'[r].audits = 1
               /\ Len(sheets'.Audit_Log) = Len(sheets.Audit_Log) + 1
               /\ SubSeq(sheets'.Audit_Log, 1, Len(sheets.Audit_Log)) = sheets.Audit_Log
               /\ LET entry == sheets'.Audit_Log[Len(sheets'.Audit_Log)]
                  IN /\ AuditCell(entry, "deal_id") = req[r].id
                     /\ AuditCell(entry, "actor_email") = req[r].email
                     /\ AuditCell(entry, "action")
                          = (IF req[r].kind = "approve" THEN approved ELSE rejected)
               /\ sheets'.Deals = sheets.Deals]_vars

C6_Witness ==
  \E r \in Requests :
    /\ pc[r] = "done" /\ res[r].code = 200 /\ res[r].status = rejected
    /\ Cell(RowOf(sheets, res[r].dealId), "status") = rejected
    /\ Cell(RowOf(sheets, res[r].dealId), "rejection_reason") = <<"r">>
    /\ \E k \in 1..Len(sheets.Audit_Log) :
         /\ AuditCell(sheets.Audit_Log[k], "deal_id") = res[r].dealId
         /\ AuditCell(sheets.Audit_Log[k], "action") = rejected

\* C7: checkDuplicateDeals returns exactly the deals that are not rejected
\* and match the company name or the domain, letter case ignored, each
\* once; hasDuplicates tells whether there is one.
C7_ExactDuplicates ==
  \A r \in Requests :
    pc[r] = "checked"
      => LET found == local[r].duplicateCheck
             expected == {row \in DealRows :
                            Collides(row, req[r].companyName, req[r].domain)}
         IN /\ {d.id : d \in Range(found.duplicates)}
                 = {Cell(row, "id") : row \in expected}
            /\ Len(found.duplicates) = Cardinality(expected)
            /\ \A d \in Range(found.duplicates) :
                 \E row \in expected :
                   \A h \in Range(DealsHeader) : d[h] = Cell(row, h)
            /\ found.hasDuplicates = (expected # {})

\* A duplicate found through lower-casing only, in a sheet that also holds
\* a rejected deal of that name
C7_Witness ==
  \E r \in Requests :
    /\ pc[r] = "checked"
    /\ local[r].duplicateCheck.hasDuplicates
    /\ \E d \in Range(local[r].duplicateCheck.duplicates) :
         d.company_name # req[r].companyName /\ d.domain # req[r].domain
    /\ \E row \in DealRows : Cell(row, "status") = rejected

\* C8: a submission whose duplicate check finds a colliding deal is answered
\* DuplicateConflict with the duplicates, and has appended and appends no
\* row to Deals or Customers.
C8_DuplicateRefused ==
  [][\A r \in Requests :
       (/\ pc[r] = "checkDup" /\ Steps(r) /\ ~hist'[r].readFailed
        /\ \E row \in DealRows : Collides(row, req[r].companyName, req[r].domain))
         => /\ pc'[r] = "done"
            /\ IsDuplicateConflict(res'[r])
            /\ {d.id : d \in Range(res'[r].duplicates)}
                 = {Cell(row, "id") : row \in {x \in DealRows :
                      Collides(x, req[r].companyName, req[r].domain)}}
            /\ sheets' = sheets
            /\ hist'[r].dealRows = 0
            /\ hist'[r].customerRows = 0]_vars

C8_Witness ==
  \E r \in Requests :
    /\ pc[r] = "done"
    /\ IsDuplicateConflict(res[r])
    /\ res[r].duplicates # <<>>

\* A deal of this name or domain exists, and all such deals are rejected
OnlyRejectedMatch(companyName, domain) ==
  /\ \A row \in DealRows : ~Collides(row, companyName, domain)
  /\ \E row \in DealRows :
       \/ SameIgnoringCase(Cell(row, "company_name"), companyName)
       \/ SameIgnoringCase(Cell(row, "domain"), domain)

AfterCheck == {"findCustomer", "appendCustomer", "refindCustomer", "appendDeal", "findCreated"}

\* C9: a submission all of whose matching deals are rejected is not refused
\* as a duplicate; it goes on to append one Deal row with status
\* 'submitted', its name and its domain, and answers success unless a store
\* call fails.
C9_RejectedDoNotBlock ==
  [][\A r \in Requests :
       /\ (/\ pc[r] = "checkDup" /\ Steps(r)
           /\ OnlyRejectedMatch(req[r].companyName, req[r].domain))
            => pc'[r] = "findCustomer"
       /\ (pc[r] = "appendDeal" /\ pc'[r] = "findCreated")
            => /\ Len(sheets'.Deals) = Len(sheets.Deals) + 1
               /\ LET row == sheets'.Deals[Len(sheets'.Deals)]
                  IN /\ Cell(row, "status") = submitted
                     /\ Cell(row, "company_name") = req[r].companyName
                     /\ Cell(row, "domain") = req[r].domain
       /\ (pc[r] \in AfterCheck /\ pc'[r] = "done")
            => \/ res'[r].code = 201 /\ hist'[r].dealRows = 1
               \/ res'[r].code = 500 /\ hist'[r].failed]_vars

\* A submission has succeeded with a row of its own below a rejected deal
\* of the same name and domain
C9_Witness ==
  \E r \in Requests :
    /\ pc[r] = "done" /\ res[r].code = 201
    /\ \E i, j \in 1..Len(sheets.Deals) :
         /\ i < j
         /\ Cell(sheets.Deals[i], "status") = rejected
         /\ Cell(sheets.Deals[j], "status") = submitted
         /\ Cell(sheets.Deals[j], "id") = generateId(r, 2)
         /\ Cell(sheets.Deals[i], "company_name") = Cell(sheets.Deals[j], "company_name")
         /\ Cell(sheets.Deals[i], "domain") = Cell(sheets.Deals[j], "domain")

\* C10: when the read of the Deals sheet fails, checkDuplicateDeals returns
\* hasDuplicates = false and no duplicates, and the submission goes on; it
\* is not answered with an error, whatever the sheet holds.
C10_FailOpen ==
  [][\A r \in Requests :
       (pc[r] = "checkDup" /\ Steps(r) /\ hist'[r].readFailed)
         => /\ pc'[r] = "findCustomer"
            /\ local'[r].duplicateCheck.hasDuplicates = FALSE
            /\ local'[r].duplicateCheck.duplicates = <<>>
            /\ res'[r] = res[r]
            /\ sheets' = sheets]_vars

\* The read has failed for a submission that collides with a stored deal
C10_Witness ==
  \E r \in Requests :
    /\ pc[r] = "findCustomer"
    /\ hist[r].readFailed
    /\ \E row \in DealRows : Collides(row, req[r].companyName, req[r].domain)

\* C11: deals of the identical domain string carry the same customer_id,
\* whatever their company names; a submission that looks for its customer
\* when a deal of its domain is stored finds that deal's customer and
\* appends no Customer row.
C11_FindBeforeCreate ==
  [][/\ \A i, j \in 1..Len(sheets'.Deals) :
          Cell(sheets'.Deals[i], "domain") = Cell(sheets'.Deals[j], "domain")
            => Cell(sheets'.Deals[i], "customer_id") = Cell(sheets'.Deals[j], "customer_id")
     /\ \A r \in Requests :
          (/\ pc[r] = "findCustomer" /\ Steps(r) /\ ~hist'[r].failed
           /\ \E row \in DealRows : Cell(row, "domain") = req[r].domain)
            => /\ pc'[r] = "appendDeal"
               /\ hist'[r].customerRows = 0
               /\ \A row \in DealRows :
                    Cell(row, "domain") = req[r].domain
                      => local'[r].customer.id = Cell(row, "customer_id")
     /\ \A r \in Requests :
          (pc[r] \in {"appendDeal", "findCreated"} /\ Steps(r))
            => hist'[r].customerRows = hist[r].customerRows]_vars

\* Two submissions of one domain under different company names have both
\* succeeded, the second after the first had answered; one Customer row
C11_Witness ==
  \E r1, r2 \in Requests :
    /\ r1 < r2
    /\ pc[r1] = "done" /\ res[r1].code = 201
    /\ pc[r2] = "done" /\ res[r2].code = 201
    /\ hist[r2].customerRows = 0
    /\ Len(sheets.Customers) = 1
    /\ LET d1 == RowOf(sheets, generateId(r1, 2))
           d2 == RowOf(sheets, generateId(r2, 2))
       IN /\ Cell(d1, "domain") = Cell(d2, "domain")
          /\ Cell(d1, "company_name") # Cell(d2, "company_name")
          /\ Cell(d1, "customer_id") = Cell(d2, "customer_id")
          /\ Cell(d1, "customer_id") = generateId(r1, 1)

\* The cell of a Customers row under a column name
CustomerCell(row, name) == OrElse(At(row, indexOf(CustomersHeader, name)), <<>>)

\* C12: the Customers sheet holds at most one row per domain value.
C12_OneCustomerPerDomain ==
  \A i, j \in 1..Len(sheets.Customers) :
    CustomerCell(sheets.Customers[i], "domain") = CustomerCell(sheets.Customers[j], "domain")
      => i = j

\* C13: the dealId a successful submission returns is the id of the Deals
\* row that this request appended.
C13_ReturnsOwnDeal ==
  \A r \in Requests :
    (pc[r] = "done" /\ res[r].code = 201)
      => /\ res[r].dealId = generateId(r, 2)
         /\ \E row \in DealRows : Cell(row, "id") = res[r].dealId

\* Ten to the power of a one-digit exponent
RECURSIVE Pow10(_)
Pow10(e) == IF e = 0 THEN 1 ELSE 10 * Pow10(e - 1)

\* The number a numeral denotes is at least a whole bound:
\* (whole + fraction / 10) * 10^exponent >= bound, for a numeral that is
\* not negative
DenotesAtLeast(n, bound) ==
  LET tenths == 10 * DigitsValue(n.whole) + DigitsValue(n.fraction)
      scale == Pow10(DigitsValue(n.exponent))
  IN /\ n.sign = <<>>
     /\ tenths >= (10 * bound + scale - 1) \div scale

\* C14: the band is decided by the numeric value of the deal value: at least
\* 500000 gives '3-5 business days', at least 100000 gives '2-3 business
\* days', anything lower or missing gives '1-2 business days'.
C14_BandByNumericValue ==
  \A r \in Requests :
    pc[r] = "estimated"
      => LET band == local[r].estimatedApprovalTime
             n == req[r].numeral
         IN IF n = Null THEN band = "1-2 business days"
            ELSE band = (IF DenotesAtLeast(n, 500000) THEN "3-5 business days"
                         ELSE IF DenotesAtLeast(n, 100000) THEN "2-3 business days"
                         ELSE "1-2 business days")

\* The three sources of the admin role: the static list, User.role, and an
\* active entry of the Admins registry
InAllowlist(email) == \E a \in ADMIN_USERS : SameIgnoringCase(email, a)

IsActiveAdminEntry(email) ==
  \E row \in Range(sheets.Admins) : At(row, 0) = email /\ At(row, 1) = active

ResolvedAdmin(rq) ==
  InAllowlist(rq.email) \/ rq.role = admin \/ IsActiveAdminEntry(rq.email)

IsForbidden(x) == x.code = 403

IsUnauthenticated(x) == x.code = 401

\* C15: an authenticated request of a user who is admin through the static
\* list, through User.role or through an active Admins entry is not answered
\* Forbidden by the approve and reject routes.
C15_AllThreeSources ==
  [][\A r \in Requests :
       (pc[r] = "admit" /\ Steps(r) /\ ResolvedAdmin(req[r]))
         => ~(pc'[r] = "done" /\ IsForbidden(res'[r]))]_vars

\* C16: an authenticated approve or reject request of a user who is not in
\* the static admin list is answered Forbidden in the step that admits
\* requests, with no store call made and no sheet changed, whatever the
\* status of the deal.
C16_AdminOnly ==
  [][\A r \in Requests :
       (pc[r] = "admit" /\ Steps(r) /\ ~InAllowlist(req[r].email))
         => /\ pc'[r] = "done"
            /\ IsForbidden(res'[r])
            /\ sheets' = sheets
            /\ failures' = failures
            /\ hist'[r].updates = 0 /\ hist'[r].audits = 0]_vars

\* A partner user has been refused on a deal of each status
C16_Witness ==
  /\ \A r \in 1..MaxAuthReq : pc[r] = "done" /\ IsForbidden(res[r])
  /\ {hist[r].startStatus : r \in 1..MaxAuthReq} = {submitted, rejected}
  /\ sheets.Deals = StoredDeals
  /\ sheets.Audit_Log = <<>>

\* The user row that a request's token names, if the token verifies
UserCell(row, name) == OrElse(At(row, indexOf(UsersHeader, name)), <<>>)

TokenUser(rq) ==
  IF rq.token.verify # "ok" THEN {}
  ELSE {row \in Range(sheets.Users) : UserCell(row, "id") = rq.token.id}

Authenticated(rq) == \E row \in TokenUser(rq) : UserCell(row, "status") = active

InMiddleware(r) == pc[r] \in {"token", "loadUser"}

\* C17 as stated: a request whose token is missing or does not verify, or
\* whose user is missing or not active, is answered Unauthenticated, and
\* only the others reach their handler.
C17_ElseUnauthenticated ==
  [][\A r \in Requests :
       (InMiddleware(r) /\ Steps(r) /\ pc'[r] # "loadUser")
         => IF pc'[r] = "admit" THEN Authenticated(req[r])
            ELSE pc'[r] = "done" /\ IsUnauthenticated(res'[r])]_vars

\* C17 amended: a request reaches its handler exactly if its token is
\* present and verifies and the user row of the token's id exists with
\* status 'active' when it is loaded; every other request is answered
\* without its handler being run: Unauthenticated, or a store failure (500)
\* when the user row cannot be read.
C17_OnlyActiveUsers ==
  [][\A r \in Requests :
       (InMiddleware(r) /\ Steps(r) /\ pc'[r] # "loadUser")
         => /\ sheets' = sheets
            /\ IF pc'[r] = "admit"
               THEN /\ Authenticated(req[r])
                    /\ \E row \in TokenUser(req[r]) : req'[r].email = UserCell(row, "email")
               ELSE /\ pc'[r] = "done"
                    /\ \/ IsUnauthenticated(res'[r]) /\ ~Authenticated(req[r])
                       \/ res'[r].code = 500 /\ hist'[r].failed /\ ~hist[r].failed]_vars

\* A request with a valid token of a user whose account is not active has
\* been answered Unauthenticated, and another has reached its handler
C17_Witness ==
  \E r, q \in Requests :
    /\ pc[r] = "done" /\ IsUnauthenticated(res[r])
    /\ res[r].error = "Invalid or inactive user"
    /\ pc[q] = "admit" /\ Authenticated(req[q])

IsValidationError(x) ==
  x.code = 400 /\ x.error \in {"Missing required fields", "Must agree to terms and conditions"}

\* A submission that lacks a required field or the agreement to the terms
Incomplete(rq) ==
  \/ \E f \in {"companyName", "domain", "partnerCompany", "submitterName", "submitterEmail"} :
       rq[f] = <<>> \/ rq[f] = Undefined
  \/ rq.agreedToTerms = FALSE

\* C18: a submission with an empty required field or without the agreement
\* to the terms is answered ValidationError in its first step: no store call
\* is made (no duplicate check) and no sheet changes.
C18_IncompleteRefused ==
  [][\A r \in Requests :
       (/\ pc[r] = "admit" /\ req[r].kind = "createDeal" /\ Steps(r)
        /\ Incomplete(req[r]))
         => /\ pc'[r] = "done"
            /\ IsValidationError(res'[r])
            /\ sheets' = sheets
            /\ failures' = failures
            /\ hist'[r] = NoHist]_vars

\* A submission with an empty required field has been refused while a
\* deal is stored
C18_Witness ==
  \E r \in Requests :
    /\ pc[r] = "done"
    /\ res[r].code = 400 /\ res[r].error = "Missing required fields"
    /\ hist[r] = NoHist
    /\ \E row \in DealRows : Cell(row, "company_name") = <<"A">>

\* The first Customers row of a domain: the one a lookup by domain finds
CustomerOf(sh, domain) ==
  LET ks == {k \in 1..Len(sh.Customers) : CustomerCell(sh.Customers[k], "domain") = domain}
  IN sh.Customers[CHOOSE k \in ks : \A j \in ks : k <= j]

\* C19: the write of a submission appends one row to Deals and changes
\* nothing else: the row has status 'submitted', the submitted company_name
\* and domain, and as customer_id the id of the Customers row of that
\* domain; a submission that answers success has made exactly one such write.
C19_AppendsOneDeal ==
  [][\A r \in Requests :
       /\ (pc[r] = "appendDeal" /\ pc'[r] = "findCreated")
            => /\ Len(sheets'.Deals) = Len(sheets.Deals) + 1
               /\ SubSeq(sheets'.Deals, 1, Len(sheets.Deals)) = sheets.Deals
               /\ sheets'.Customers = sheets.Customers
               /\ sheets'.Audit_Log = sheets.Audit_Log
               /\ hist'[r].dealRows = 1
               /\ LET row == sheets'.Deals[Len(sheets'.Deals)]
                  IN /\ Cell(row, "status") = submitted
                     /\ Cell(row, "company_name") = req[r].companyName
                     /\ Cell(row, "domain") = req[r].domain
                     /\ \E c \in Range(sheets.Customers) :
                          CustomerCell(c, "domain") = req[r].domain
                     /\ Cell(row, "customer_id")
                          = CustomerCell(CustomerOf(sheets, req[r].domain), "id")
       /\ (pc[r] = "findCreated" /\ pc'[r] = "done" /\ res'[r].code = 201)
            => /\ hist'[r].dealRows = 1
               /\ hist'[r].customerRows <= 1
               /\ res'[r].status = submitted
               /\ sheets' = sheets
       /\ (req[r] # Null /\ req[r].kind = "createDeal" /\ pc[r] # "appendDeal")
            => sheets'.Deals = sheets.Deals \/ pc'[r] = pc[r]]_vars

\* One submission has succeeded with a customer it created, another with a
\* customer it found
C19_Witness ==
  \E r, q \in Requests :
    /\ pc[r] = "done" /\ res[r].code = 201
    /\ hist[r].dealRows = 1 /\ hist[r].customerRows = 1
    /\ pc[q] = "done" /\ res[q].code = 201
    /\ hist[q].dealRows = 1 /\ hist[q].customerRows = 0
    /\ Len(sheets.Deals) = 2

\* A filter the caller supplied: present and not empty
Supplied(filter) == filter # Undefined /\ filter # <<>>

\* The Deals rows that satisfy the supplied filters, in store order
MatchingDeals(status, partner) ==
  SelectSeq(sheets.Deals,
            LAMBDA row : /\ Supplied(status) => Cell(row, "status") = status
                         /\ Supplied(partner) => Cell(row, "partner_company") = partner)

\* A listing has answered success and its limit is a number
Listed(r) ==
  /\ pc[r] = "done" /\ res[r].code = 200 /\ "filters" \in DOMAIN res[r]
  /\ ~res[r].filters.limit.isNaN

\* The limit of a listing has a fractional part
FractionalLimit(r) ==
  \E k \in 1..Len(res[r].filters.limit.fraction) : res[r].filters.limit.fraction[k] # "0"

\* C20: a listing that answers success with a numeric limit (the default 50
\* when none is given) returns the first `limit` Deals rows, in store
\* order, that satisfy the supplied status and partner-company filters:
\* never more than `limit` deals, never a deal that fails a supplied filter,
\* and no matching deal skipped while fewer than `limit` are collected.
C20_FirstLimitDeals ==
  \A r \in Requests :
    Listed(r)
      => LET filters == res[r].filters
             listed == res[r].deals
             matching == MatchingDeals(filters.status, filters.partner)
         IN /\ Len(listed) <= filters.limit.whole
            /\ \A k \in 1..Len(listed) :
                 /\ Supplied(filters.status) => listed[k].status = filters.status
                 /\ Supplied(filters.partner)
                      => listed[k].partner_company = filters.partner
            /\ Len(listed) <= Len(matching)
            /\ \A k \in 1..Len(listed) :
                 listed[k] = rowObject(DealsHeader, matching[k])
            /\ Len(listed) < Len(matching)
                 => \/ Len(listed) > filters.limit.whole
                    \/ Len(listed) = filters.limit.whole /\ ~FractionalLimit(r)

\* C21: the audit log is append-only: every step of a submission, an
\* approval, a rejection, a registration or a sign-in leaves the entries of
\* the Audit_Log where they are, with every field unchanged, and every
\* entry's action is 'approved' or 'rejected'.
C21_AuditAppendOnly ==
  [][/\ Len(sheets'.Audit_Log) >= Len(sheets.Audit_Log)
     /\ SubSeq(sheets'.Audit_Log, 1, Len(sheets.Audit_Log)) = sheets.Audit_Log
     /\ \A k \in 1..Len(sheets'.Audit_Log) :
          AuditCell(sheets'.Audit_Log[k], "action") \in {approved, rejected}]_vars

\* A deal has been submitted and rejected, its entry is in the log, and a
\* user has been stored by the request that came last
C21_Witness ==
  /\ Len(sheets.Audit_Log) = 1
  /\ AuditCell(sheets.Audit_Log[1], "action") = rejected
  /\ Len(sheets.Deals) = 1
  /\ Len(sheets.Users) = 1
  /\ At(sheets.Users[1], 0) = generateId(MaxReq, 2)
  /\ \A r \in Requests : pc[r] = "done"

\* C22: the Users sheet holds at most one row per email, also when
\* registerUser and googleLogin calls for one email overlap; and a
\* registerUser call that finds a User of its email throws 'User already
\* exists with this email' and appends nothing.
C22_UniqueEmail ==
  /\ \A i, j \in 1..Len(sheets.Users) :
       UserCell(sheets.Users[i], "email") = UserCell(sheets.Users[j], "email") => i = j
  /\ \A r \in Requests :
       (pc[r] = "done" /\ res[r].error = "User already exists with this email")
         => \A row \in Range(sheets.Users) : UserCell(row, "id") # generateId(r, 2)

\* The data rows, by their position in the table (the header is position
\* 1), whose cell in the first column of the searched name is the value; a
\* row that ends before that column has no such cell
MatchingPositions(data, searchColumn, searchValue) ==
  {k \in 2..Len(data) :
     \E c \in 1..Len(data[1]) :
       /\ data[1][c] = searchColumn
       /\ \A b \in 1..(c - 1) : data[1][b] # searchColumn
       /\ c <= Len(data[k])
       /\ data[k][c] = searchValue}

\* C23: findRowByValue returns none when the table is empty, when the
\* column is not in the header, or when no data row has the value in that
\* column; otherwise it returns the first such row in store order, as a
\* record keyed by the header names (a missing or empty cell reads '', and of
\* two columns of one name the later one is read), with _rowIndex the
\* 1-based position of the row counting the header as position 1.
C23_FirstMatchingRow ==
  \A r \in Requests :
    pc[r] = "found"
      => LET data == req[r].data
             rowData == local[r].rowData
             matching == MatchingPositions(data, req[r].searchColumn, req[r].searchValue)
         IN IF matching = {} THEN rowData = Null
            ELSE LET first == CHOOSE k \in matching : \A j \in matching : k <= j
                     row == data[first]
                 IN /\ rowData # Null
                    /\ DOMAIN rowData = Range(data[1]) \cup {"_rowIndex"}
                    /\ rowData._rowIndex = first
                    /\ first >= 2
                    /\ \A c \in 1..Len(data[1]) :
                         (\A b \in (c + 1)..Len(data[1]) : data[1][b] # data[1][c])
                           => rowData[data[1][c]]
                                = (IF c <= Len(row) THEN row[c] ELSE <<>>)

\* The second data row is found: the first has another value in the
\* column, or ends before it
C23_Witness ==
  \E r \in Requests :
    /\ pc[r] = "found"
    /\ local[r].rowData # Null
    /\ local[r].rowData._rowIndex = 3
    /\ Len(req[r].data[2]) = 0
    /\ req[r].searchValue = <<"v">>

\* The columns that an approve and a reject set
WrittenColumns(kind) ==
  IF kind = "approve" THEN {"status", "approved_by", "approved_at"}
  ELSE {"status", "approved_by", "approved_at", "rejection_reason"}

\* C24: the write of an approve or a reject for a deal id goes to the row
\* that holds that id when it is written, whatever other requests did since
\* the row was found; it leaves that row with a terminal status, changes no
\* column of it other than status, approved_by, approved_at (and, for a
\* reject, rejection_reason), and leaves every other Deals row as it is.
C24_UpdateFrame ==
  [][\A r \in Requests :
       (pc[r] = "update" /\ pc'[r] = "audit")
         => LET k == local[r].deal._rowIndex - 1
            IN /\ k \in 1..Len(sheets.Deals)
               /\ Cell(sheets.Deals[k], "id") = req[r].id
               /\ Len(sheets'.Deals) = Len(sheets.Deals)
               /\ \A j \in 1..Len(sheets.Deals) : j # k => sheets'.Deals[j] = sheets.Deals[j]
               /\ Terminal(Cell(sheets'.Deals[k], "status"))
               /\ \A name \in Range(DealsHeader) \ WrittenColumns(req[r].kind) :
                    Cell(sheets'.Deals[k], name) = Cell(sheets.Deals[k], name)]_vars

\* An approve has written the row of a deal that a reject had written
\* since the approve read it: the reason of the reject is still in the row
C24_Witness ==
  \E r, q \in Requests :
    /\ r # q
    /\ hist[r].updates = 1 /\ hist[q].updates = 1
    /\ \E row \in DealRows :
         /\ Cell(row, "status") = approved
         /\ Cell(row, "rejection_reason") = <<"r">>

\* C25: the customer lookup of a submission matches the domain exactly,
\* letter case included: a submission goes on to append a Customers row of
\* its own exactly if no Customers row has its domain character for
\* character, also when a row has that domain in another letter case; and
\* the row it appends carries the domain as submitted.
C25_CaseSensitiveCustomer ==
  [][\A r \in Requests :
       /\ (pc[r] = "findCustomer" /\ Steps(r) /\ pc'[r] # "done")
            => IF \E row \in Range(sheets.Customers) :
                    CustomerCell(row, "domain") = req[r].domain
               THEN pc'[r] = "appendDeal" /\ local'[r].customer.domain = req[r].domain
               ELSE pc'[r] = "appendCustomer"
       /\ (pc[r] = "appendCustomer" /\ Steps(r) /\ pc'[r] # "done")
            => /\ Len(sheets'.Customers) = Len(sheets.Customers) + 1
               /\ CustomerCell(sheets'.Customers[Len(sheets'.Customers)], "domain")
                    = req[r].domain]_vars

\* After the deal of a first submission was rejected, a submission of the
\* same domain in another letter case has succeeded with a Customers row of
\* its own
C25_Witness ==
  \E r \in Requests :
    /\ pc[r] = "done" /\ res[r].code = 201
    /\ hist[r].customerRows = 1
    /\ Len(sheets.Customers) = 2
    /\ CustomerCell(sheets.Customers[1], "domain") # CustomerCell(sheets.Customers[2], "domain")
    /\ SameIgnoringCase(CustomerCell(sheets.Customers[1], "domain"),
                        CustomerCell(sheets.Customers[2], "domain"))
    /\ \E row \in DealRows : Cell(row, "status") = rejected

\* C26: no two Deals rows whose status is not 'rejected' have the same
\* company_name or the same domain, letter case ignored.
C26_NoLiveDuplicates ==
  \A i, j \in 1..Len(sheets.Deals) :
    (/\ i # j
     /\ Cell(sheets.Deals[i], "status") # rejected
     /\ Cell(sheets.Deals[j], "status") # rejected)
      => /\ ~SameIgnoringCase(Cell(sheets.Deals[i], "company_name"),
                              Cell(sheets.Deals[j], "company_name"))
         /\ ~SameIgnoringCase(Cell(sheets.Deals[i], "domain"),
                              Cell(sheets.Deals[j], "domain"))

\* An approve or a reject request is between its arrival and its answer
TransitionInProgress ==
  \E r \in Requests :
    pc[r] \notin {"idle", "done"} /\ req[r].kind \in {"approve", "reject"}

\* C27: when no approve or reject request is in progress, every Deals row
\* with status 'approved' or 'rejected' has an Audit_Log entry with its id
\* and that action, and an approve or reject request that was answered with
\* a store error has not written the row of its deal.
C27_TransitionHasAudit ==
  ~TransitionInProgress
    => /\ \A row \in DealRows :
            Terminal(Cell(row, "status"))
              => \E k \in 1..Len(sheets.Audit_Log) :
                   /\ AuditCell(sheets.Audit_Log[k], "deal_id") = Cell(row, "id")
                   /\ AuditCell(sheets.Audit_Log[k], "action") = Cell(row, "status")
       /\ \A r \in Requests :
            (/\ pc[r] = "done"
             /\ res[r].error \in {"Failed to approve deal", "Failed to reject deal"})
              => hist[r].updates = 0

\* The Users row that loginUser looks at: the first row of the email
LoginUser(rq) == findUserByEmail(rq.email)

\* Every Users row is still where it was and what it was
UsersRowsKept ==
  /\ Len(sheets'.Users) >= Len(sheets.Users)
  /\ \A i \in 1..Len(sheets.Users) : sheets'.Users[i] = sheets.Users[i]

\* The row a call appends to Users in this step has the status
AppendsUserWithStatus(r, status) ==
  Len(sheets'.Users) > Len(sheets.Users)
    => /\ Len(sheets'.Users) = Len(sheets.Users) + 1
       /\ UserCell(sheets'.Users[Len(sheets'.Users)], "id") = generateId(r, 2)
       /\ UserCell(sheets'.Users[Len(sheets'.Users)], "status") = status

\* The request's token names a stored user of the status
TokenOf(rq, status) ==
  \E row \in TokenUser(rq) : UserCell(row, "status") = status

\* C29 as stated, its last part: a loginUser call for the email of an
\* 'active' user (one that googleLogin has created) whose store calls
\* succeed does not fail.
C29_GoogleUserPassesBoth ==
  [][\A r \in Requests :
       (/\ pc[r] = "findUser" /\ req[r].kind = "loginUser" /\ Steps(r)
        /\ LoginUser(req[r]) # Null
        /\ hist'[r].failed = hist[r].failed)
         => (LoginUser(req[r]).status = active => pc'[r] = "findPartnerById")]_vars

\* C29 amended: registerUser appends its user with status 'pending' and
\* googleLogin with status 'active' and an empty password hash; no step
\* changes or removes a Users row; every loginUser call fails, for a
\* 'pending' user with 'Invalid credentials or account not active' and for
\* an 'active' one with 'Invalid credentials' (or with the store's error);
\* a request bearing the token of a 'pending' user never reaches its
\* handler, and one bearing the token of an 'active' user reaches it unless
\* the read of the user fails.
C29_PendingNeverSignsIn ==
  [][/\ UsersRowsKept
     /\ \A r \in Requests :
          /\ (pc[r] = "appendUser" /\ req[r].kind = "registerUser" /\ Steps(r))
               => AppendsUserWithStatus(r, pending)
          /\ (pc[r] = "appendUser" /\ req[r].kind = "googleLogin" /\ Steps(r))
               => /\ AppendsUserWithStatus(r, active)
                  /\ Len(sheets'.Users) > Len(sheets.Users)
                       => UserCell(sheets'.Users[Len(sheets'.Users)], "password_hash") = <<>>
          /\ (pc[r] = "findUser" /\ req[r].kind = "loginUser" /\ Steps(r))
               => /\ pc'[r] = "done" /\ res'[r].error # ""
                  /\ hist'[r].failed = hist[r].failed
                       => IF LoginUser(req[r]) # Null /\ LoginUser(req[r]).status = active
                          THEN res'[r].error = "Invalid credentials"
                          ELSE res'[r].error = "Invalid credentials or account not active"
          /\ (pc[r] = "loadUser" /\ Steps(r))
               => /\ TokenOf(req[r], pending)
                       => pc'[r] = "done" /\ res'[r].code \in {401, 500}
                  /\ (TokenOf(req[r], active) /\ hist'[r].failed = hist[r].failed)
                       => pc'[r] = "admit"]_vars

\* The Users sheet holds a 'pending' user with a password hash and an
\* 'active' one, and a loginUser call has failed with 'Invalid credentials',
\* which only the 'active' user's email brings about
C29_Witness ==
  /\ \E row \in Range(sheets.Users) :
       /\ UserCell(row, "status") = pending
       /\ UserCell(row, "password_hash") = bcryptHash(<<"p">>)
  /\ \E row \in Range(sheets.Users) : UserCell(row, "status") = active
  /\ \E r \in Requests : pc[r] = "done" /\ res[r].error = "Invalid credentials"

\* The number of Deals rows with the status
DealsWithStatus(status) ==
  Cardinality({i \in 1..Len(sheets.Deals) : Cell(sheets.Deals[i], "status") = status})

\* Request r reads the Deals sheet for the statistics and answers them
AnswersStats(r) ==
  pc[r] = "stats" /\ pc'[r] = "done" /\ res'[r].code = 200

\* C30: the statistics answered from a Deals sheet that submissions,
\* approvals and rejections have written have total = submitted + approved
\* + rejected, total equal to the number of Deal rows of the sheet, and the
\* counter of each status equal to the number of rows in that status.
C30_StatsCountDeals ==
  [][\A r \in Requests :
       AnswersStats(r)
         => /\ res'[r].stats.total = res'[r].stats.submitted + res'[r].stats.approved
                                       + res'[r].stats.rejected
            /\ res'[r].stats.total = Len(sheets.Deals)
            /\ res'[r].stats.submitted = DealsWithStatus(submitted)
            /\ res'[r].stats.approved = DealsWithStatus(approved)
            /\ res'[r].stats.rejected = DealsWithStatus(rejected)]_vars

\* Statistics have been answered from a sheet that holds a deal of each
\* status, the submitted one appended by a request
C30_Witness ==
  \E r \in Requests :
    /\ pc[r] = "done" /\ res[r].code = 200 /\ "stats" \in DOMAIN res[r]
    /\ res[r].stats.submitted = 1 /\ res[r].stats.approved = 1
    /\ res[r].stats.rejected = 1 /\ res[r].stats.total = 3
    /\ \E q \in Requests : hist[q].dealRows = 1

\* A call of apiClient.checkDuplicates for the values that are in the
\* fields has returned
CheckedCurrent(r) ==
  /\ r # 1 /\ pc[r] = "done"
  /\ req[r].companyName = trim(req[1].companyName)
  /\ req[r].domain = trim(req[1].domain)

FoundIn(x) ==
  IF x.error # "" \/ "duplicates" \notin DOMAIN x.data THEN <<>> ELSE x.data.duplicates

\* C28: the form of the quick-check step is valid, or has been left with
\* Next, only if a duplicate check for the company name and the domain that
\* are in the fields has completed and has found no duplicate (a check
\* whose call has failed counts as one that has found none), and the
\* duplicates it shows are those that a check for the values in the fields
\* has found.
C28_ValidOnlyAfterCheck ==
  /\ (isFormValid(req[1], local[1]) \/ pc[1] = "next")
       => \E r \in Requests : CheckedCurrent(r) /\ FoundIn(res[r]) = <<>>
  /\ local[1].duplicateDeals # <<>>
       => \E r \in Requests : CheckedCurrent(r) /\ FoundIn(res[r]) = local[1].duplicateDeals

====
